---------------------------- MODULE Spec2Model ----------------------------
(***************************************************************************)
(* Stick Arena Party: the arena round (RoundState), the per-frame          *)
(* simulation step `run`, the player commands (dash, hero power, upgrade   *)
(* choice, pause, start) and the round lifecycle of the StickPartyGame     *)
(* component.                                                              *)
(*                                                                         *)
(* Units.  Times are integer milliseconds (elapsed, spawnClock, ttl and    *)
(* every ...Until / ...At stamp); build.fireInterval, build.dashCooldown   *)
(* and dashReadyAt are microseconds because they are not whole             *)
(* milliseconds.  Lengths are tenths of a pixel.  score is kept in         *)
(* 1/ScoreUnit points and powerCharge in 1/PowerUnit percent, which makes  *)
(* the per-frame accruals of a MaxDelta frame exact integers.              *)
(* build.moveSpeed is in thousandths.                                      *)
(*                                                                         *)
(* Geometry.  The arena is quantised into the cells of CellX, a line of    *)
(* positions relative to the player, who is at PlayerCell.  Every distance *)
(* the code takes with Math.hypot is the distance of the two cells, and    *)
(* every comparison with a radius is the code's comparison.  All movement  *)
(* in `run` is "position += velocity * delta": a frame with delta = 0      *)
(* moves nothing, a frame with delta > 0 may carry one entity, or the      *)
(* entities of one kind that share a cell, to another cell (the frame's    *)
(* input mv).                                                              *)
(*                                                                         *)
(* Randomness.  Every Math.random() draw is an input of the action that    *)
(* makes it, in thousandths (a draw u stands for Math.random() = u/1000).  *)
(***************************************************************************)
EXTENDS Integers, Sequences, FiniteSets, TLC

VARIABLES
    phase,          \* phaseRef / phase: "home" | "playing" | "game_over"
    round,          \* roundRef.current: the RoundState
    profile,        \* profileRef.current (the fields the round reads and writes)
    isPaused,       \* isPaused
    upgradeOpen,    \* upgradeOpenRef / isUpgradeOpen
    upgradeChoices, \* upgradeChoices (the ids offered)
    roundSummary,   \* roundSummary, NoSummary for null
    input,          \* keyboardRef / pointerRef, as the direction they ask for
    selectedHero,   \* selectedHero
    selectedWeapon, \* selectedWeapon
    now,            \* the wall clock Date.now() reads, ms
    adState,        \* adState: "idle" | "loading" | "showing"
    adCountdown,    \* adCountdown, seconds
    adStartTimeout, \* the 800 ms timer of adStartTimeoutRef is pending
    adInterval      \* the 1 s interval of adIntervalRef is running

\* The wall clock and the rewarded ad.
adVars == <<now, adState, adCountdown, adStartTimeout, adInterval>>

vars == <<phase, round, profile, isPaused, upgradeOpen, upgradeChoices,
          roundSummary, input, selectedHero, selectedWeapon,
          now, adState, adCountdown, adStartTimeout, adInterval>>

-----------------------------------------------------------------------------
(* Program constants *)

MaxDelta == 50
ScoreUnit == 1600
PowerUnit == 10000
COMBO_WINDOW == 2700
DASH_DURATION == 240
PLAYER_RADIUS == 120
ENEMY_CAP == 95
PROJECTILE_CAP == 180
COMBO_CAP == 9
POWER_FULL == 100
START_SPAWN_DELAY == 1140
MIN_SPAWN_DELAY == 300
PROJECTILE_TTL == 1600
XP_FIRST_LEVEL == 70
HIT_INVULNERABLE == 1000

HeroIds == {"viper", "titan", "nova", "arc"}
WeaponIds == {"pulse", "scatter", "lance"}
UpgradeIds == {"rapid_fire", "power_shot", "speed_boost", "multi_shot", "dash_core", "magnet"}
EnemyTypes == {"runner", "zigzag", "brute"}
PickupKinds == {"shield", "frenzy", "stasis"}

\* HERO_POOL: moveScale in thousandths, fireScale and dashScale in hundredths.
HERO_POOL ==
    [viper |-> [moveScale |-> 1140, fireScale |-> 106, damageBonus |-> 0, extraShield |-> 0, dashScale |-> 82],
     titan |-> [moveScale |-> 900,  fireScale |-> 93,  damageBonus |-> 1, extraShield |-> 1, dashScale |-> 120],
     nova  |-> [moveScale |-> 1000, fireScale |-> 115, damageBonus |-> 0, extraShield |-> 0, dashScale |-> 100],
     arc   |-> [moveScale |-> 980,  fireScale |-> 100, damageBonus |-> 0, extraShield |-> 0, dashScale |-> 95]]

getHero(heroId) == HERO_POOL[heroId]

\* WEAPON_POOL: what a weapon costs to unlock.
WEAPON_POOL ==
    [pulse   |-> [unlockCredits |-> 0,   unlockCrystals |-> 0],
     scatter |-> [unlockCredits |-> 320, unlockCrystals |-> 2],
     lance   |-> [unlockCredits |-> 520, unlockCrystals |-> 4]]

getWeapon(weaponId) == WEAPON_POOL[weaponId]

-----------------------------------------------------------------------------
(* Arithmetic helpers *)

Min(a, b) == IF a <= b THEN a ELSE b
Max(a, b) == IF a >= b THEN a ELSE b
Abs(a) == IF a >= 0 THEN a ELSE -a

clamp(value, lo, hi) == Max(lo, Min(hi, value))

\* randomInRange(lo, hi) for the draw u (thousandths): lo + u/1000 * (hi - lo).
randomInRange(lo, hi, u) == lo + (u * (hi - lo)) \div 1000

\* Math.floor(randomInRange(lo, hi)) for whole lo, hi.
floorRange(lo, hi, u) == lo + (u * (hi - lo)) \div 1000

RemoveAt(s, i) == SubSeq(s, 1, i - 1) \o SubSeq(s, i + 1, Len(s))

\* splice(0, n): drop the n oldest entries.
DropOldest(s, n) == SubSeq(s, n + 1, Len(s))

-----------------------------------------------------------------------------
(* Geometry: cells on a line through the player, in tenths of a pixel     *)

CellX == <<0, 600, 4000, -4000>>
Cells == 1..Len(CellX)
PlayerCell == 1
OutOfBounds == 0

\* Math.hypot over the two positions.
Distance(a, b) == Abs(CellX[a] - CellX[b])

\* createEnemy's side: sides 0 and 1 (top, right) and 2 and 3 (bottom, left)
\* are the two edge cells.
EdgeCell(side) == IF side < 2 THEN 3 ELSE 4

NoMove == [k |-> "none", i |-> 0, a |-> 0, c |-> 0]

\* The list after the frame's movement mv, when mv is about this kind of entity:
\* entry mv.i, or (mv.i = 0) every entry in cell mv.a, is carried to cell mv.c.
RECURSIVE Carried(_, _, _)
Carried(list, mv, n) ==
    IF n = 0 THEN <<>>
    ELSE Append(Carried(list, mv, n - 1),
                IF mv.i = n \/ (mv.i = 0 /\ list[n].pos = mv.a)
                THEN [list[n] EXCEPT !.pos = mv.c]
                ELSE list[n])

Moved(list, kind, mv, dt) ==
    IF dt > 0 /\ mv.k = kind THEN Carried(list, mv, Len(list)) ELSE list

-----------------------------------------------------------------------------
(* Build and round construction *)

createBaseBuild(heroId, metaUpgrades) ==
    LET hero == getHero(heroId)
        baseShield == Max(1, 1 + hero.extraShield + metaUpgrades.armor)
        agilityBoost == metaUpgrades.agility * 65
        dashReduction == Min(280, metaUpgrades.agility * 45)
    IN  [moveSpeed    |-> hero.moveScale + agilityBoost,
         fireInterval |-> Max(180000, (520000 * 100) \div hero.fireScale),
         shotDamage   |-> Max(1, 1 + hero.damageBonus),
         multiShot    |-> 1,
         dashCooldown |-> Max(1950000, 48 * hero.dashScale * (1000 - dashReduction)),
         pickupRadius |-> 280,
         maxShield    |-> baseShield,
         shield       |-> baseShield]

\* resetRound; eliteU and contractU are the draws of nextEliteAt and nextContractAt.
resetRound(heroId, weaponId, metaUpgrades, eliteU, contractU) ==
    [heroId |-> heroId,
     weaponId |-> weaponId,
     enemies |-> <<>>,
     projectiles |-> <<>>,
     orbs |-> <<>>,
     pickups |-> <<>>,
     elapsed |-> 0,
     score |-> 0,
     spawnClock |-> 0,
     spawnedEnemies |-> 0,
     kills |-> 0,
     level |-> 1,
     xp |-> 0,
     xpToNext |-> XP_FIRST_LEVEL,
     combo |-> 1,
     comboExpireAt |-> 0,
     bestCombo |-> 1,
     lastShotAt |-> 0,
     dashReadyAt |-> 0,
     dashingUntil |-> 0,
     dashDirX |-> 1,
     dashDirY |-> 0,
     invulnerableUntil |-> 0,
     powerCharge |-> 0,
     frenzyUntil |-> 0,
     stasisUntil |-> 0,
     nextEliteAt |-> randomInRange(30000, 38000, eliteU),
     contractTarget |-> 0,
     contractProgress |-> 0,
     contractExpireAt |-> 0,
     nextContractAt |-> randomInRange(18000, 26000, contractU),
     powerGainScale |-> 100 + metaUpgrades.reactor * 12,
     build |-> createBaseBuild(heroId, metaUpgrades),
     upgrades |-> {}]

\* createEnemy; roll is in hundredths, radU and speedU the draws of the radius
\* and of the speed; baseSpeed is in hundredths of a pixel per second.
createEnemy(elapsed, forcedElite, side, roll, radU, speedU) ==
    LET shouldElite == forcedElite \/ (elapsed > 65000 /\ roll < 7)
        enemyType == IF shouldElite \/ (elapsed > 50000 /\ roll < 20) THEN "brute"
                     ELSE IF elapsed > 20000 /\ roll < 48 THEN "zigzag"
                     ELSE "runner"
    IN  IF enemyType = "brute"
        THEN [type |-> enemyType,
              elite |-> shouldElite,
              hp |-> IF shouldElite THEN 12 ELSE 6,
              maxHp |-> IF shouldElite THEN 12 ELSE 6,
              radius |-> (randomInRange(180, 240, radU) * (IF shouldElite THEN 165 ELSE 100)) \div 100,
              baseSpeed |-> ((randomInRange(4900, 6400, speedU) + (elapsed * 11) \div 100)
                                * (IF shouldElite THEN 108 ELSE 100)) \div 100,
              pos |-> EdgeCell(side)]
        ELSE IF enemyType = "zigzag"
        THEN [type |-> enemyType, elite |-> FALSE, hp |-> 3, maxHp |-> 3,
              radius |-> randomInRange(120, 160, radU),
              baseSpeed |-> randomInRange(8200, 10400, speedU) + (elapsed * 20) \div 100,
              pos |-> EdgeCell(side)]
        ELSE [type |-> enemyType, elite |-> FALSE, hp |-> 2, maxHp |-> 2,
              radius |-> randomInRange(100, 140, radU),
              baseSpeed |-> randomInRange(6500, 9000, speedU) + (elapsed * 18) \div 100,
              pos |-> EdgeCell(side)]

\* pickUpgradeChoices: the first three of a shuffle of UPGRADE_POOL, as a set.
pickUpgradeChoices == {c \in SUBSET UpgradeIds : Cardinality(c) = 3}

applyUpgrade(r, id) ==
    LET b == r.build
        nb == CASE id = "rapid_fire"  -> [b EXCEPT !.fireInterval = Max(140000, (b.fireInterval * 84) \div 100)]
                [] id = "power_shot"  -> [b EXCEPT !.shotDamage = b.shotDamage + 1]
                [] id = "speed_boost" -> [b EXCEPT !.moveSpeed = Min(1900, b.moveSpeed + 120)]
                [] id = "multi_shot"  -> [b EXCEPT !.multiShot = Min(4, b.multiShot + 1)]
                [] id = "dash_core"   -> [b EXCEPT !.dashCooldown = Max(2100000, (b.dashCooldown * 84) \div 100)]
                [] id = "magnet"      -> [b EXCEPT !.pickupRadius = Min(2400, b.pickupRadius + 300)]
                [] OTHER -> b
    IN  [r EXCEPT !.upgrades = r.upgrades \cup {id}, !.build = nb]

\* The largest power of two below q, for q >= 2: the binade of the doubles
\* just below the whole number q.
RECURSIVE PowerOfTwoBelow(_)
PowerOfTwoBelow(q) == IF q <= 2 THEN 1 ELSE 2 * PowerOfTwoBelow((q + 1) \div 2)

\* Math.floor(s * 0.58) for a whole s >= 0, in the double arithmetic of the
\* code.  The double 0.58 is 5224175567749775 / 2^53 = 0.58 - 0.36 / 2^53, so
\* the exact product is 58 s / 100 - 0.36 s / 2^53.  When 58 s / 100 is not
\* whole the product and its rounding lie strictly between the same two whole
\* numbers.  When it is a whole number q, the product lies just below q and
\* rounds to q only if its distance 0.36 s / 2^53 from q is less than half an
\* ulp, 2^e / 2^53 with 2^e the largest power of two below q; otherwise the
\* rounded product stays below q and the floor is q - 1.
floorTimes058(s) ==
    LET q == (s * 58) \div 100
    IN  IF (s * 58) % 100 # 0 \/ s = 0 THEN q
        ELSE IF 36 * s < 100 * PowerOfTwoBelow(q) THEN q
        ELSE q - 1

\* calculateMatchReward (economy.ts), score in whole points.
calculateMatchReward(score) ==
    LET cleanScore == Max(0, score)
    IN  [credits  |-> Min(130, 10 + floorTimes058(cleanScore)),
         crystals |-> Min(4, cleanScore \div 70)]

-----------------------------------------------------------------------------
(* Combat helpers *)

\* findNearestEnemy: the index of the first enemy at the least distance, 0 for null.
findNearestEnemy(r) ==
    IF r.enemies = <<>> THEN 0
    ELSE LET best == CHOOSE i \in 1..Len(r.enemies) :
                        \A j \in 1..Len(r.enemies) :
                            LET di == Distance(r.enemies[i].pos, PlayerCell)
                                dj == Distance(r.enemies[j].pos, PlayerCell)
                            IN  di < dj \/ (di = dj /\ i <= j)
         IN  best

RECURSIVE Repeat(_, _)
Repeat(x, n) == IF n = 0 THEN <<>> ELSE Append(Repeat(x, n - 1), x)

spawnVolley(r) ==
    IF findNearestEnemy(r) = 0 THEN r
    ELSE LET w == r.weaponId
             shotCount == IF w = "scatter" THEN Max(3, r.build.multiShot + 2)
                          ELSE IF w = "lance" THEN 1
                          ELSE Max(1, r.build.multiShot)
             ttl == IF w = "scatter" THEN (PROJECTILE_TTL * 88) \div 100
                    ELSE IF w = "lance" THEN (PROJECTILE_TTL * 145) \div 100
                    ELSE PROJECTILE_TTL
             damageScale == IF w = "scatter" THEN 72 ELSE IF w = "lance" THEN 195 ELSE 100
             radius == IF w = "scatter" THEN 30 ELSE IF w = "lance" THEN 45 ELSE 32
             pierce == IF w = "lance" THEN 2 ELSE 0
             shot == [ttl |-> ttl,
                      damage |-> Max(1, (r.build.shotDamage * damageScale + 50) \div 100),
                      radius |-> radius,
                      pierce |-> pierce,
                      pos |-> PlayerCell]
             all == r.projectiles \o Repeat(shot, shotCount)
         IN  [r EXCEPT !.projectiles =
                 IF Len(all) > PROJECTILE_CAP THEN DropOldest(all, Len(all) - PROJECTILE_CAP) ELSE all]

\* Mutation of nextCombo: the combo is not capped.
nextComboUncapped(r) == IF r.elapsed <= r.comboExpireAt THEN r.combo + 1 ELSE 1

\* Mutation of nextCombo: an expired combo is continued.
nextComboKept(r) == Min(COMBO_CAP, r.combo + 1)

\* The combo after a kill: continued while the window is open, restarted after.
nextCombo(r) == IF r.elapsed <= r.comboExpireAt THEN Min(COMBO_CAP, r.combo + 1) ELSE 1

\* onEnemyDefeated; xpU is the draw of the orb's xp, drop the drop roll.
onEnemyDefeated(r, enemy, xpU, drop) ==
    LET combo == nextCombo(r)
        baseScore == IF enemy.elite THEN 86 ELSE IF enemy.type = "brute" THEN 40
                     ELSE IF enemy.type = "zigzag" THEN 27 ELSE 19
        gainedScore == (baseScore * (100 + (combo - 1) * 16)) \div 100
        charge == IF enemy.elite THEN 28 ELSE IF enemy.type = "brute" THEN 18
                  ELSE IF enemy.type = "zigzag" THEN 12 ELSE 8
        orbXp == IF enemy.elite THEN floorRange(32, 46, xpU)
                 ELSE IF enemy.type = "brute" THEN floorRange(18, 28, xpU)
                 ELSE IF enemy.type = "zigzag" THEN floorRange(12, 18, xpU)
                 ELSE floorRange(8, 14, xpU)
        orb == [radius |-> IF enemy.elite THEN 85 ELSE IF enemy.type = "brute" THEN 70 ELSE 60,
                xp |-> orbXp,
                score |-> IF enemy.elite THEN 22 ELSE IF enemy.type = "brute" THEN 14 ELSE 8,
                ttl |-> 14000,
                pos |-> enemy.pos]
        kind == IF drop < 28 THEN "shield" ELSE IF drop < 56 THEN "frenzy" ELSE "stasis"
    IN  [r EXCEPT
            !.combo = combo,
            !.bestCombo = Max(r.bestCombo, combo),
            !.comboExpireAt = r.elapsed + COMBO_WINDOW,
            !.kills = r.kills + 1,
            !.score = r.score + gainedScore * ScoreUnit,
            !.powerCharge = Min(POWER_FULL * PowerUnit, r.powerCharge + charge * PowerUnit),
            !.orbs = Append(r.orbs, orb),
            !.contractProgress = IF r.contractTarget > 0 THEN r.contractProgress + 1
                                 ELSE r.contractProgress,
            !.pickups = IF enemy.elite \/ drop < 80
                        THEN Append(r.pickups, [kind |-> kind, ttl |-> 15000, pos |-> enemy.pos])
                        ELSE r.pickups]

-----------------------------------------------------------------------------
(* The simulation step of `run`, sub-phase by sub-phase.  dt is the frame's *)
(* delta in ms, o holds the frame's draws, mv is the frame's movement.      *)

\* Mutation of advanceClock: the passive charge is not capped.
advanceClockUncapped(r, dt) ==
    LET elapsed == r.elapsed + dt
    IN  [r EXCEPT
            !.elapsed = elapsed,
            !.spawnClock = r.spawnClock + dt,
            !.powerCharge = r.powerCharge + (dt * 36 * r.powerGainScale) \div 100,
            !.score = r.score + (dt * (36000 + 6400 * r.level + elapsed)) \div 2500]

\* elapsed, spawn clock, passive power charge and idle score.
advanceClock(r, dt) ==
    LET elapsed == r.elapsed + dt
    IN  [r EXCEPT
            !.elapsed = elapsed,
            !.spawnClock = r.spawnClock + dt,
            !.powerCharge = Min(POWER_FULL * PowerUnit, r.powerCharge + (dt * 36 * r.powerGainScale) \div 100),
            !.score = r.score + (dt * (36000 + 6400 * r.level + elapsed)) \div 2500]

\* Mutation of contractOffer: the next offer is timed like the deadline.
contractOfferSoonAgain(r, o) ==
    IF r.contractTarget <= 0 /\ r.elapsed >= r.nextContractAt
    THEN [r EXCEPT
            !.contractTarget = floorRange(8, 13, o.conTargetU),
            !.contractProgress = 0,
            !.contractExpireAt = r.elapsed + randomInRange(17000, 21000, o.conDurU),
            !.nextContractAt = r.elapsed + randomInRange(17000, 21000, o.conNextU)]
    ELSE r

contractOffer(r, o) ==
    IF r.contractTarget <= 0 /\ r.elapsed >= r.nextContractAt
    THEN [r EXCEPT
            !.contractTarget = floorRange(8, 13, o.conTargetU),
            !.contractProgress = 0,
            !.contractExpireAt = r.elapsed + randomInRange(17000, 21000, o.conDurU),
            !.nextContractAt = r.elapsed + randomInRange(30000, 42000, o.conNextU)]
    ELSE r

\* Mutation of contractExpiry: a failed contract also ends the combo.
contractExpiryEndsCombo(r) ==
    IF r.contractTarget > 0 /\ r.elapsed > r.contractExpireAt
    THEN [r EXCEPT !.contractTarget = 0, !.contractProgress = 0,
                   !.combo = 0, !.comboExpireAt = 0]
    ELSE r

contractExpiry(r) ==
    IF r.contractTarget > 0 /\ r.elapsed > r.contractExpireAt
    THEN [r EXCEPT !.contractTarget = 0, !.contractProgress = 0]
    ELSE r

\* Mutation of contractCompletion: the shield reward is not capped at maxShield.
contractCompletionUncapped(r) ==
    IF r.contractTarget > 0 /\ r.contractProgress >= r.contractTarget
    THEN [r EXCEPT
            !.score = r.score + (180 + r.level * 32) * ScoreUnit,
            !.build.shield = r.build.shield + 1,
            !.powerCharge = Min(POWER_FULL * PowerUnit, r.powerCharge + 28 * PowerUnit),
            !.contractTarget = 0,
            !.contractProgress = 0]
    ELSE r

contractCompletion(r) ==
    IF r.contractTarget > 0 /\ r.contractProgress >= r.contractTarget
    THEN [r EXCEPT
            !.score = r.score + (180 + r.level * 32) * ScoreUnit,
            !.build.shield = Min(r.build.maxShield, r.build.shield + 1),
            !.powerCharge = Min(POWER_FULL * PowerUnit, r.powerCharge + 28 * PowerUnit),
            !.contractTarget = 0,
            !.contractProgress = 0]
    ELSE r

\* Mutation of eliteSpawn: the timer is not set again.
eliteSpawnNoReschedule(r, o) ==
    IF r.elapsed >= r.nextEliteAt
    THEN [r EXCEPT
            !.enemies = Append(r.enemies, createEnemy(r.elapsed, TRUE, o.side, o.roll, o.radU, o.speedU)),
            !.spawnedEnemies = r.spawnedEnemies + 1]
    ELSE r

eliteSpawn(r, o) ==
    IF r.elapsed >= r.nextEliteAt
    THEN [r EXCEPT
            !.enemies = Append(r.enemies, createEnemy(r.elapsed, TRUE, o.side, o.roll, o.radU, o.speedU)),
            !.spawnedEnemies = r.spawnedEnemies + 1,
            !.nextEliteAt = r.nextEliteAt + randomInRange(30000, 38000, o.eliteU)]
    ELSE r

\* Mutation of spawnDelay: the delay has no floor.
spawnDelayNoFloor(elapsed) ==
    Min(START_SPAWN_DELAY * 1000, START_SPAWN_DELAY * 1000 - elapsed * 18)

\* clamp(START_SPAWN_DELAY - elapsed * 0.018, MIN_SPAWN_DELAY, START_SPAWN_DELAY), in microseconds.
spawnDelay(elapsed) ==
    clamp(START_SPAWN_DELAY * 1000 - elapsed * 18, MIN_SPAWN_DELAY * 1000, START_SPAWN_DELAY * 1000)

\* Mutation of regularSpawn: the spawn clock is not reset.
regularSpawnNoReset(r, o) ==
    IF r.spawnClock * 1000 >= spawnDelay(r.elapsed)
    THEN [r EXCEPT
            !.enemies = Append(r.enemies, createEnemy(r.elapsed, FALSE, o.side, o.roll, o.radU, o.speedU)),
            !.spawnedEnemies = r.spawnedEnemies + 1]
    ELSE r

regularSpawn(r, o) ==
    IF r.spawnClock * 1000 >= spawnDelay(r.elapsed)
    THEN LET all == Append(r.enemies, createEnemy(r.elapsed, FALSE, o.side, o.roll, o.radU, o.speedU))
         IN  [r EXCEPT
                !.spawnClock = 0,
                !.enemies = IF Len(all) > ENEMY_CAP THEN DropOldest(all, Len(all) - ENEMY_CAP) ELSE all,
                !.spawnedEnemies = r.spawnedEnemies + 1]
    ELSE r

\* The direction asked for: the pointer's when it is active, else the keys'.
inputDir(in) == [x |-> in.dx, y |-> in.dy]

\* Movement: the asked direction overwrites dashDir whenever it is not zero.
movePlayer(r, in) ==
    LET d == inputDir(in)
    IN  IF d.x # 0 \/ d.y # 0 THEN [r EXCEPT !.dashDirX = d.x, !.dashDirY = d.y] ELSE r

fireDelay(r) ==
    Max(120000, IF r.frenzyUntil > r.elapsed THEN (r.build.fireInterval * 68) \div 100
                ELSE r.build.fireInterval)

autoFire(r) ==
    IF Len(r.enemies) > 0 /\ (r.elapsed - r.lastShotAt) * 1000 >= fireDelay(r)
    THEN [spawnVolley(r) EXCEPT !.lastShotAt = r.elapsed]
    ELSE r

\* An enemy's circle overlaps the player's.
touches(enemy) == Distance(enemy.pos, PlayerCell) < enemy.radius + PLAYER_RADIUS

\* Mutation of invulnerable: the window ends one instant early.
invulnerableStrict(r) == r.elapsed < r.invulnerableUntil

\* The player ignores contact.
invulnerable(r) == r.elapsed <= r.invulnerableUntil

\* Mutation of absorbHit: the absorbed enemy is counted as a kill.
absorbHitCountsKill(r, i) ==
    [r EXCEPT !.build.shield = r.build.shield - 1,
              !.invulnerableUntil = r.elapsed + HIT_INVULNERABLE,
              !.kills = r.kills + 1,
              !.enemies = RemoveAt(r.enemies, i)]

\* Mutation of absorbHit: the invulnerability window is not opened.
absorbHitNoWindow(r, i) ==
    [r EXCEPT !.build.shield = r.build.shield - 1,
              !.enemies = RemoveAt(r.enemies, i)]

\* A shield absorbs the hit of enemy i.
absorbHit(r, i) ==
    [r EXCEPT !.build.shield = r.build.shield - 1,
              !.invulnerableUntil = r.elapsed + HIT_INVULNERABLE,
              !.enemies = RemoveAt(r.enemies, i)]

\* The enemy loop from index i down: contact with the player.
RECURSIVE enemyLoop(_, _)
enemyLoop(r, i) ==
    IF i = 0 THEN [r |-> r, fatal |-> FALSE]
    ELSE IF touches(r.enemies[i])
    THEN IF invulnerable(r) THEN enemyLoop(r, i - 1)
         ELSE IF r.build.shield > 0 THEN enemyLoop(absorbHit(r, i), i - 1)
         ELSE [r |-> r, fatal |-> TRUE]
    ELSE enemyLoop(r, i - 1)

\* Mutation of pierced: the projectile keeps its damage.
piercedKeepsDamage(p) ==
    IF p.pierce > 0 THEN <<[p EXCEPT !.pierce = p.pierce - 1]>> ELSE <<>>

\* What is left of a projectile after a hit: itself with one pierce and one
\* point of damage less, or nothing.
pierced(p) ==
    IF p.pierce > 0
    THEN <<[p EXCEPT !.pierce = p.pierce - 1, !.damage = Max(1, p.damage - 1)]>>
    ELSE <<>>

\* Mutation of damaged: the defeated enemy stays in the list.
damagedKeepsEnemy(r, p, j, o) ==
    IF r.enemies[j].hp - p.damage <= 0
    THEN [onEnemyDefeated(r, [r.enemies[j] EXCEPT !.hp = r.enemies[j].hp - p.damage],
                          o.xpU, o.drop)
             EXCEPT !.enemies[j].hp = r.enemies[j].hp - p.damage]
    ELSE [r EXCEPT !.enemies[j].hp = r.enemies[j].hp - p.damage]

\* What the hit of projectile p does to enemy j.
damaged(r, p, j, o) ==
    IF r.enemies[j].hp - p.damage <= 0
    THEN [onEnemyDefeated(r, [r.enemies[j] EXCEPT !.hp = r.enemies[j].hp - p.damage],
                          o.xpU, o.drop)
             EXCEPT !.enemies = RemoveAt(r.enemies, j)]
    ELSE [r EXCEPT !.enemies[j].hp = r.enemies[j].hp - p.damage]

\* What a projectile does to the enemy it hit and to itself.
projectileHit(r, i, p, j, o) ==
    [damaged(r, p, j, o) EXCEPT
        !.projectiles = SubSeq(r.projectiles, 1, i - 1) \o pierced(p)
                           \o SubSeq(r.projectiles, i + 1, Len(r.projectiles))]

\* The enemies within reach of projectile p.
inReach(r, p) ==
    {j \in 1..Len(r.enemies) :
        ~(Distance(p.pos, r.enemies[j].pos) > p.radius + r.enemies[j].radius)}

\* The inner loop runs from the last enemy down and breaks at the first hit.
firstHit(r, p) == CHOOSE k \in inReach(r, p) : \A m \in inReach(r, p) : m <= k

\* Mutation of projectileStep: a projectile is not removed when its ttl runs out.
projectileStepNoExpiry(r, i, p, o) ==
    IF p.pos = OutOfBounds
    THEN [r EXCEPT !.projectiles = RemoveAt(r.projectiles, i)]
    ELSE IF inReach(r, p) = {}
    THEN [r EXCEPT !.projectiles[i] = p]
    ELSE projectileHit(r, i, p, firstHit(r, p), o)

\* The body of the projectile loop for the projectile at index i, aged to p.
projectileStep(r, i, p, o) ==
    IF p.ttl <= 0 \/ p.pos = OutOfBounds
    THEN [r EXCEPT !.projectiles = RemoveAt(r.projectiles, i)]
    ELSE IF inReach(r, p) = {}
    THEN [r EXCEPT !.projectiles[i] = p]
    ELSE projectileHit(r, i, p, firstHit(r, p), o)

\* The projectile at index i after its age step.
aged(r, i, dt) == [r.projectiles[i] EXCEPT !.ttl = r.projectiles[i].ttl - dt]

\* The projectile loop from index i down to index stop + 1; the index is
\* within the list, since the loop starts at its last entry.
RECURSIVE projectileLoop(_, _, _, _, _)
projectileLoop(r, i, stop, dt, o) ==
    IF i <= stop \/ i > Len(r.projectiles) THEN r
    ELSE projectileLoop(projectileStep(r, i, aged(r, i, dt), o), i - 1, stop, dt, o)

\* The orb loop from index i down.
RECURSIVE orbLoop(_, _, _)
orbLoop(r, i, dt) ==
    IF i = 0 THEN r
    ELSE LET orb == [r.orbs[i] EXCEPT !.ttl = r.orbs[i].ttl - dt]
         IN  IF orb.ttl <= 0
             THEN orbLoop([r EXCEPT !.orbs = RemoveAt(r.orbs, i)], i - 1, dt)
             ELSE IF Distance(orb.pos, PlayerCell) < r.build.pickupRadius + PLAYER_RADIUS
             THEN orbLoop([r EXCEPT !.xp = r.xp + orb.xp,
                                    !.score = r.score + orb.score * ScoreUnit,
                                    !.orbs = RemoveAt(r.orbs, i)], i - 1, dt)
             ELSE orbLoop([r EXCEPT !.orbs[i] = orb], i - 1, dt)

\* What a collected pickup gives.
pickupEffect(r, kind) ==
    CASE kind = "shield" -> [r EXCEPT !.build.shield = Min(r.build.maxShield, r.build.shield + 1)]
      [] kind = "frenzy" -> [r EXCEPT !.frenzyUntil = Max(r.frenzyUntil, r.elapsed + 8000)]
      [] OTHER -> [r EXCEPT !.stasisUntil = Max(r.stasisUntil, r.elapsed + 6500)]

\* The pickup loop from index i down.
RECURSIVE pickupLoop(_, _, _)
pickupLoop(r, i, dt) ==
    IF i = 0 THEN r
    ELSE LET pickup == [r.pickups[i] EXCEPT !.ttl = r.pickups[i].ttl - dt]
         IN  IF pickup.ttl <= 0
             THEN pickupLoop([r EXCEPT !.pickups = RemoveAt(r.pickups, i)], i - 1, dt)
             ELSE IF Distance(pickup.pos, PlayerCell) > 90 + PLAYER_RADIUS + 20
             THEN pickupLoop([r EXCEPT !.pickups[i] = pickup], i - 1, dt)
             ELSE pickupLoop([pickupEffect(r, pickup.kind) EXCEPT
                                 !.pickups = RemoveAt(r.pickups, i)], i - 1, dt)

\* Mutation of comboExpiry: the combo is given one more frame.
comboExpiryLate(r) ==
    IF r.elapsed > r.comboExpireAt + MaxDelta THEN [r EXCEPT !.combo = 1] ELSE r

comboExpiry(r) ==
    IF r.elapsed > r.comboExpireAt THEN [r EXCEPT !.combo = 1] ELSE r

\* Mutation of levelUp: levels are taken while the experience reaches the threshold.
RECURSIVE levelUpAll(_)
levelUpAll(r) ==
    IF r.xp >= r.xpToNext
    THEN levelUpAll([r EXCEPT !.xp = r.xp - r.xpToNext,
                              !.level = r.level + 1,
                              !.xpToNext = (r.xpToNext * 122) \div 100 + 16])
    ELSE r

\* Mutation of levelUp: the threshold grows by the factor only.
levelUpNoIncrement(r) ==
    IF r.xp >= r.xpToNext
    THEN [r EXCEPT !.xp = r.xp - r.xpToNext,
                   !.level = r.level + 1,
                   !.xpToNext = (r.xpToNext * 122) \div 100]
    ELSE r

levelUp(r) ==
    IF r.xp >= r.xpToNext
    THEN [r EXCEPT !.xp = r.xp - r.xpToNext,
                   !.level = r.level + 1,
                   !.xpToNext = (r.xpToNext * 122) \div 100 + 16]
    ELSE r

\* The frame's movement, applied to each list.
moveEntities(r, mv, dt) ==
    [r EXCEPT !.enemies = Moved(r.enemies, "e", mv, dt),
              !.projectiles = Moved(r.projectiles, "p", mv, dt),
              !.orbs = Moved(r.orbs, "o", mv, dt),
              !.pickups = Moved(r.pickups, "u", mv, dt)]

enemies(r) == enemyLoop(r, Len(r.enemies))
projectiles(r, dt, o) == projectileLoop(r, Len(r.projectiles), 0, dt, o)
orbs(r, dt) == orbLoop(r, Len(r.orbs), dt)
pickups(r, dt) == pickupLoop(r, Len(r.pickups), dt)

\* Mutation of afterEnemies: the round end is given the state at the end of the step.
afterEnemiesLateRoundEnd(el, dt, o) ==
    [r |-> comboExpiry(pickups(orbs(projectiles(el.r, dt, o), dt), dt)),
     fatal |-> el.fatal,
     atHit |-> comboExpiry(pickups(orbs(projectiles(el.r, dt, o), dt), dt))]

\* The step from the enemy loop's outcome el to the end.
afterEnemies(el, dt, o) ==
    [r |-> comboExpiry(pickups(orbs(projectiles(el.r, dt, o), dt), dt)),
     fatal |-> el.fatal,
     atHit |-> el.r]

\* Leveling, and whether it called openUpgradeSelection.
leveling(s) ==
    [r |-> levelUp(s.r), fatal |-> s.fatal, atHit |-> s.atHit,
     leveled |-> s.r.xp >= s.r.xpToNext]

\* The step up to the enemy loop: clocks, contract, spawns, steering, volley
\* and the frame's movement.
beforeEnemies(r, dt, o, mv, in) ==
    moveEntities(
        autoFire(movePlayer(
            regularSpawn(eliteSpawn(
                contractCompletion(contractExpiry(contractOffer(
                    advanceClock(r, dt), o))), o), o), in)), mv, dt)

\* The whole step on r: the state it leaves, whether the enemy loop met the
\* fatal collision (atHit is then the state handleRoundEnd is given) and whether
\* openUpgradeSelection was called.
simulate(r, dt, o, mv, in) ==
    leveling(afterEnemies(enemies(beforeEnemies(r, dt, o, mv, in)), dt, o))

-----------------------------------------------------------------------------
(* Round end, start and the player commands *)

NoSummary == [none |-> TRUE]

\* handleRoundEnd's summary of finalState, nextBest the best score after the round.
roundSummaryOf(finalState, nextBest) ==
    LET score == finalState.score \div ScoreUnit
        rewards == calculateMatchReward(score)
    IN  [score |-> score,
         survivalSeconds |-> finalState.elapsed \div 1000,
         spawnedEnemies |-> finalState.spawnedEnemies,
         kills |-> finalState.kills,
         level |-> finalState.level,
         bestCombo |-> finalState.bestCombo,
         rewardCredits |-> rewards.credits,
         rewardCrystals |-> rewards.crystals,
         isBestScore |-> score >= nextBest]

\* The local calendar day of the wall-clock instant t, as a day number.
DayMs == 86400000
localDayKey(t) == t \div DayMs

REWARDED_COOLDOWN_SECONDS == 150
REWARDED_DAILY_CAP == 8
AD_DURATION_SECONDS == 6

REWARDED_TIERS ==
    << [id |-> "small",  credits |-> 80,  crystals |-> 1, weight |-> 52],
       [id |-> "medium", credits |-> 130, crystals |-> 2, weight |-> 33],
       [id |-> "large",  credits |-> 210, crystals |-> 3, weight |-> 15] >>

\* DAILY_MISSIONS: the counter of the day each mission reads, its goal and its reward.
DAILY_MISSIONS ==
    [daily_kills    |-> [metric |-> "kills", goal |-> 120,
                         rewardCredits |-> 280, rewardCrystals |-> 1],
     daily_survival |-> [metric |-> "survivalSeconds", goal |-> 240,
                         rewardCredits |-> 220, rewardCrystals |-> 1],
     daily_matches  |-> [metric |-> "matches", goal |-> 5,
                         rewardCredits |-> 180, rewardCrystals |-> 1]]

MissionIds == DOMAIN DAILY_MISSIONS

missionProgressValue(progress, metric) == progress[metric]

getDefaultMissionProgress == [kills |-> 0, survivalSeconds |-> 0, matches |-> 0]

\* refreshDailyCounters: the claims of the day, and the missions of the day,
\* start again on another day.
refreshDailyCounters(current, t) ==
    LET today == localDayKey(t)
        next == IF current.rewardedDay # today
                THEN [current EXCEPT !.rewardedDay = today, !.rewardedClaimsToday = 0]
                ELSE current
    IN  IF next.dailyMissionDay # today
        THEN [next EXCEPT !.dailyMissionDay = today,
                          !.dailyMissionProgress = getDefaultMissionProgress,
                          !.dailyMissionClaimed = {}]
        ELSE next

\* Math.ceil(a / b) for b > 0.
CeilDiv(a, b) == -((-a) \div b)

\* Mutation of rewardedStatus: the daily cap is not looked at.
rewardedStatusNoCap(current, t) ==
    LET normalized == refreshDailyCounters(current, t)
        claimsLeftToday == Max(0, REWARDED_DAILY_CAP - normalized.rewardedClaimsToday)
        nextReadyAt == normalized.rewardedLastClaimAt + REWARDED_COOLDOWN_SECONDS * 1000
        secondsUntilReady == Max(0, CeilDiv(nextReadyAt - t, 1000))
    IN  IF normalized.rewardedLastClaimAt > t + 30000
        THEN [eligible |-> FALSE, claimsLeftToday |-> claimsLeftToday,
              secondsUntilReady |-> REWARDED_COOLDOWN_SECONDS, reason |-> "clock_guard"]
        ELSE IF secondsUntilReady > 0
        THEN [eligible |-> FALSE, claimsLeftToday |-> claimsLeftToday,
              secondsUntilReady |-> secondsUntilReady, reason |-> "cooldown"]
        ELSE [eligible |-> TRUE, claimsLeftToday |-> claimsLeftToday,
              secondsUntilReady |-> 0, reason |-> "none"]

\* Mutation of rewardedStatus: the cooldown is not looked at.
rewardedStatusNoCooldown(current, t) ==
    LET normalized == refreshDailyCounters(current, t)
        claimsLeftToday == Max(0, REWARDED_DAILY_CAP - normalized.rewardedClaimsToday)
    IN  IF claimsLeftToday <= 0
        THEN [eligible |-> FALSE, claimsLeftToday |-> claimsLeftToday,
              secondsUntilReady |-> 0, reason |-> "daily_cap"]
        ELSE IF normalized.rewardedLastClaimAt > t + 30000
        THEN [eligible |-> FALSE, claimsLeftToday |-> claimsLeftToday,
              secondsUntilReady |-> REWARDED_COOLDOWN_SECONDS, reason |-> "clock_guard"]
        ELSE [eligible |-> TRUE, claimsLeftToday |-> claimsLeftToday,
              secondsUntilReady |-> 0, reason |-> "none"]

\* rewardedStatus at the wall-clock instant t.
rewardedStatus(current, t) ==
    LET normalized == refreshDailyCounters(current, t)
        claimsLeftToday == Max(0, REWARDED_DAILY_CAP - normalized.rewardedClaimsToday)
        nextReadyAt == normalized.rewardedLastClaimAt + REWARDED_COOLDOWN_SECONDS * 1000
        secondsUntilReady == Max(0, CeilDiv(nextReadyAt - t, 1000))
    IN  IF claimsLeftToday <= 0
        THEN [eligible |-> FALSE, claimsLeftToday |-> claimsLeftToday,
              secondsUntilReady |-> 0, reason |-> "daily_cap"]
        ELSE IF normalized.rewardedLastClaimAt > t + 30000
        THEN [eligible |-> FALSE, claimsLeftToday |-> claimsLeftToday,
              secondsUntilReady |-> REWARDED_COOLDOWN_SECONDS, reason |-> "clock_guard"]
        ELSE IF secondsUntilReady > 0
        THEN [eligible |-> FALSE, claimsLeftToday |-> claimsLeftToday,
              secondsUntilReady |-> secondsUntilReady, reason |-> "cooldown"]
        ELSE [eligible |-> TRUE, claimsLeftToday |-> claimsLeftToday,
              secondsUntilReady |-> 0, reason |-> "none"]

\* The sum of the weights of the tiers from index i on.
RECURSIVE weightFrom(_)
weightFrom(i) ==
    IF i > Len(REWARDED_TIERS) THEN 0 ELSE REWARDED_TIERS[i].weight + weightFrom(i + 1)

\* rollRewardedBonus's loop from tier i, cursor the weight of the tiers before it.
RECURSIVE tierFrom(_, _, _)
tierFrom(u, i, cursor) ==
    IF i > Len(REWARDED_TIERS) THEN REWARDED_TIERS[Len(REWARDED_TIERS)]
    ELSE IF u * weightFrom(1) < (cursor + REWARDED_TIERS[i].weight) * 1000
         THEN REWARDED_TIERS[i]
         ELSE tierFrom(u, i + 1, cursor + REWARDED_TIERS[i].weight)

\* rollRewardedBonus, the random value u in thousandths.
rollRewardedBonus(u) == tierFrom(Max(0, Min(999, u)), 1, 0)

\* completeRewarded's profile update at the wall-clock instant t.
completeRewardedProfile(current, t, u) ==
    LET grantedTier == rollRewardedBonus(u)
        normalized == refreshDailyCounters(current, t)
        currentStatus == rewardedStatus(normalized, t)
    IN  IF ~currentStatus.eligible THEN normalized
        ELSE [normalized EXCEPT
                !.credits = normalized.credits + grantedTier.credits,
                !.crystals = normalized.crystals + grantedTier.crystals,
                !.rewardedClaimsToday = normalized.rewardedClaimsToday + 1,
                !.rewardedLastClaimAt = t,
                !.rewardedLifetimeClaims = normalized.rewardedLifetimeClaims + 1]

\* handleRoundEnd's profile update.
roundEndProfile(stored, finalState) ==
    LET score == finalState.score \div ScoreUnit
        rewards == calculateMatchReward(score)
        current == refreshDailyCounters(stored, now)
    IN  [current EXCEPT
            !.lastScore = score,
            !.totalMatches = current.totalMatches + 1,
            !.totalPlaySeconds = current.totalPlaySeconds + finalState.elapsed \div 1000,
            !.bestScore = Max(current.bestScore, score),
            !.credits = current.credits + rewards.credits,
            !.crystals = current.crystals + rewards.crystals,
            !.dailyMissionProgress =
                [kills |-> current.dailyMissionProgress.kills + finalState.kills,
                 survivalSeconds |-> current.dailyMissionProgress.survivalSeconds
                                        + finalState.elapsed \div 1000,
                 matches |-> current.dailyMissionProgress.matches + 1]]

\* startMatch's weapon: the selected one when unlocked, else the profile's, else pulse.
safeWeapon(current, weaponId) ==
    LET preferredWeapon == IF weaponId \in current.unlockedWeapons THEN weaponId
                           ELSE current.selectedWeapon
    IN  IF preferredWeapon \in current.unlockedWeapons THEN preferredWeapon ELSE "pulse"

Sign(a) == IF a > 0 THEN 1 ELSE IF a < 0 THEN -1 ELSE 0

\* Mutation of dash: the window of the dash replaces the one that is open.
dashShortensWindow(r, in) ==
    LET d == inputDir(in)
        nearest == findNearestEnemy(r)
        dx == IF d.x # 0 \/ d.y # 0 THEN d.x
              ELSE IF nearest # 0 THEN Sign(CellX[PlayerCell] - CellX[r.enemies[nearest].pos])
              ELSE 1
        dy == IF d.x # 0 \/ d.y # 0 THEN d.y ELSE 0
    IN  [r EXCEPT
            !.dashDirX = IF dx # 0 THEN dx ELSE 1,
            !.dashDirY = dy,
            !.dashingUntil = r.elapsed + DASH_DURATION,
            !.invulnerableUntil = r.elapsed + (DASH_DURATION * 105) \div 100,
            !.dashReadyAt = r.elapsed * 1000 + r.build.dashCooldown]

\* Mutation of dash: the dash opens no window.
dashUnprotected(r, in) ==
    LET d == inputDir(in)
        nearest == findNearestEnemy(r)
        dx == IF d.x # 0 \/ d.y # 0 THEN d.x
              ELSE IF nearest # 0 THEN Sign(CellX[PlayerCell] - CellX[r.enemies[nearest].pos])
              ELSE 1
        dy == IF d.x # 0 \/ d.y # 0 THEN d.y ELSE 0
    IN  [r EXCEPT
            !.dashDirX = IF dx # 0 THEN dx ELSE 1,
            !.dashDirY = dy,
            !.dashingUntil = r.elapsed + DASH_DURATION,
            !.dashReadyAt = r.elapsed * 1000 + r.build.dashCooldown]

\* triggerDash past its guards.
dash(r, in) ==
    LET d == inputDir(in)
        nearest == findNearestEnemy(r)
        dx == IF d.x # 0 \/ d.y # 0 THEN d.x
              ELSE IF nearest # 0 THEN Sign(CellX[PlayerCell] - CellX[r.enemies[nearest].pos])
              ELSE 1
        dy == IF d.x # 0 \/ d.y # 0 THEN d.y ELSE 0
    IN  [r EXCEPT
            !.dashDirX = IF dx # 0 THEN dx ELSE 1,
            !.dashDirY = dy,
            !.dashingUntil = r.elapsed + DASH_DURATION,
            !.invulnerableUntil = Max(r.invulnerableUntil, r.elapsed + (DASH_DURATION * 105) \div 100),
            !.dashReadyAt = r.elapsed * 1000 + r.build.dashCooldown]

\* Blade Storm's loop from index i down.
RECURSIVE bladeStorm(_, _, _)
bladeStorm(r, i, o) ==
    IF i = 0 THEN r
    ELSE IF Distance(r.enemies[i].pos, PlayerCell) > 1320 THEN bladeStorm(r, i - 1, o)
    ELSE LET enemy == [r.enemies[i] EXCEPT !.hp = r.enemies[i].hp - (IF r.enemies[i].elite THEN 6 ELSE 9)]
         IN  IF enemy.hp <= 0
             THEN bladeStorm([onEnemyDefeated(r, enemy, o.xpU, o.drop) EXCEPT
                                 !.enemies = RemoveAt(r.enemies, i)], i - 1, o)
             ELSE bladeStorm([r EXCEPT !.enemies[i] = enemy], i - 1, o)

\* Arc Storm's targets: the indices of the (up to) six nearest enemies, nearest first.
arcTargets(r) ==
    LET n == Len(r.enemies)
        before(j, i) ==
            LET dj == Distance(r.enemies[j].pos, PlayerCell)
                di == Distance(r.enemies[i].pos, PlayerCell)
            IN  dj < di \/ (dj = di /\ j < i)
        rank(i) == Cardinality({j \in 1..n : before(j, i)}) + 1
    IN  [k \in 1..Min(6, n) |-> CHOOSE i \in 1..n : rank(i) = k]

\* Arc Storm's loop over targets from position k; gone holds the targets removed so far.
RECURSIVE arcStorm(_, _, _, _, _)
arcStorm(r, targets, k, gone, o) ==
    IF k > Len(targets) THEN r
    ELSE LET i == targets[k] - Cardinality({g \in gone : g < targets[k]})
             enemy == [r.enemies[i] EXCEPT !.hp = r.enemies[i].hp - (IF r.enemies[i].elite THEN 10 ELSE 999)]
         IN  IF enemy.hp <= 0
             THEN arcStorm([onEnemyDefeated(r, enemy, o.xpU, o.drop) EXCEPT
                               !.enemies = RemoveAt(r.enemies, i)],
                           targets, k + 1, gone \cup {targets[k]}, o)
             ELSE arcStorm([r EXCEPT !.enemies[i] = enemy], targets, k + 1, gone, o)

\* triggerHeroPower past its guards.
heroPower(r, o) ==
    LET r1 == CASE r.heroId = "viper" ->
                    bladeStorm([r EXCEPT
                                   !.frenzyUntil = Max(r.frenzyUntil, r.elapsed + 6500),
                                   !.dashingUntil = r.elapsed + 440,
                                   !.invulnerableUntil = Max(r.invulnerableUntil, r.elapsed + 850)],
                               Len(r.enemies), o)
                [] r.heroId = "titan" ->
                    [r EXCEPT
                        !.build.shield = r.build.maxShield,
                        !.invulnerableUntil = Max(r.invulnerableUntil, r.elapsed + 3100),
                        !.stasisUntil = Max(r.stasisUntil, r.elapsed + 1300)]
                [] r.heroId = "nova" ->
                    [r EXCEPT
                        !.projectiles = r.projectiles \o
                            Repeat([ttl |-> 1050, damage |-> r.build.shotDamage + 2,
                                    radius |-> 34, pierce |-> 0, pos |-> PlayerCell], 22),
                        !.frenzyUntil = Max(r.frenzyUntil, r.elapsed + 3500)]
                [] OTHER ->
                    arcStorm([r EXCEPT !.stasisUntil = Max(r.stasisUntil, r.elapsed + 5100)],
                             arcTargets(r), 1, {}, o)
    IN  [r1 EXCEPT !.powerCharge = 0]

-----------------------------------------------------------------------------
(* Actions: one per callback of the component *)

\* Mutation of simulating: the pause is not looked at.
simulatingWhilePaused == phase = "playing" /\ ~upgradeOpen

\* `run`'s guard.
simulating == phase = "playing" /\ ~isPaused /\ ~upgradeOpen

\* The phase after a simulated frame with outcome s.
phaseAfter(s) == IF s.fatal THEN "game_over" ELSE "playing"

\* What a simulated frame with outcome s leaves in the component.
frameOutcome(s, o) ==
    /\ round' = IF s.fatal
                THEN resetRound(round.heroId, round.weaponId, profile.metaUpgrades,
                                o.resetEliteU, o.resetConU)
                ELSE s.r
    /\ phase' = phaseAfter(s)
    /\ profile' = IF s.fatal THEN roundEndProfile(profile, s.atHit) ELSE profile
    /\ roundSummary' = IF s.fatal
                       THEN roundSummaryOf(s.atHit, Max(profile.bestScore, s.atHit.score \div ScoreUnit))
                       ELSE roundSummary
    /\ isPaused' = FALSE
    /\ upgradeOpen' = s.leveled
    /\ upgradeChoices' = IF s.leveled THEN o.choices
                         ELSE IF s.fatal THEN {} ELSE upgradeChoices
    /\ UNCHANGED <<input, selectedHero, selectedWeapon>>
    /\ UNCHANGED adVars

\* `run`, the animation-frame callback, with the frame's delta dt.
Frame(dt, o, mv) ==
    IF simulating
    THEN frameOutcome(simulate(round, dt, o, mv, input), o)
    ELSE UNCHANGED vars

\* What blocks triggerDash and triggerHeroPower.
commandBlocked == phase # "playing" \/ isPaused \/ upgradeOpen

\* Mutation of StartMatch: a match is started in any phase.
StartMatchWhilePlaying(o) ==
    /\ LET weapon == safeWeapon(profile, selectedWeapon)
       IN  /\ profile' = [refreshDailyCounters(profile, now) EXCEPT !.selectedWeapon = weapon]
           /\ round' = resetRound(selectedHero, weapon, profile.metaUpgrades,
                                  o.resetEliteU, o.resetConU)
    /\ upgradeOpen' = FALSE
    /\ upgradeChoices' = {}
    /\ roundSummary' = NoSummary
    /\ isPaused' = FALSE
    /\ phase' = "playing"
    /\ UNCHANGED <<input, selectedHero, selectedWeapon>>
    /\ UNCHANGED adVars

\* startMatch, from the Space key or a start button (phase is not "playing").
StartMatch(o) ==
    /\ phase # "playing"
    /\ LET weapon == safeWeapon(profile, selectedWeapon)
       IN  /\ profile' = [refreshDailyCounters(profile, now) EXCEPT !.selectedWeapon = weapon]
           /\ round' = resetRound(selectedHero, weapon, profile.metaUpgrades,
                                  o.resetEliteU, o.resetConU)
    /\ upgradeOpen' = FALSE
    /\ upgradeChoices' = {}
    /\ roundSummary' = NoSummary
    /\ isPaused' = FALSE
    /\ phase' = "playing"
    /\ UNCHANGED <<input, selectedHero, selectedWeapon>>
    /\ UNCHANGED adVars

\* The hero picker of the home screen.
SelectHero(heroId) ==
    /\ phase = "home"
    /\ selectedHero' = heroId
    /\ UNCHANGED <<phase, round, profile, isPaused, upgradeOpen, upgradeChoices,
                   roundSummary, input, selectedWeapon>>
    /\ UNCHANGED adVars

\* Mutation of SelectWeapon: a locked weapon is selected as well.
SelectWeaponUnchecked(weaponId) ==
    /\ profile' = [profile EXCEPT !.selectedWeapon = weaponId]
    /\ selectedWeapon' = weaponId
    /\ UNCHANGED <<phase, round, isPaused, upgradeOpen, upgradeChoices,
                   roundSummary, input, selectedHero>>
    /\ UNCHANGED adVars

\* selectWeaponLoadout.
SelectWeapon(weaponId) ==
    /\ IF weaponId \in profile.unlockedWeapons
       THEN /\ profile' = [profile EXCEPT !.selectedWeapon = weaponId]
            /\ selectedWeapon' = weaponId
       ELSE UNCHANGED <<profile, selectedWeapon>>
    /\ UNCHANGED <<phase, round, isPaused, upgradeOpen, upgradeChoices,
                   roundSummary, input, selectedHero>>
    /\ UNCHANGED adVars

\* triggerDash, from the Shift key or the dash button.
TriggerDash ==
    /\ round' = IF commandBlocked THEN round
                ELSE IF round.dashReadyAt - round.elapsed * 1000 > 0 THEN round
                ELSE dash(round, input)
    /\ UNCHANGED <<phase, profile, isPaused, upgradeOpen, upgradeChoices,
                   roundSummary, input, selectedHero, selectedWeapon>>
    /\ UNCHANGED adVars

\* Mutation of TriggerHeroPower: the charge is not looked at.
TriggerHeroPowerAnyCharge(o) ==
    /\ round' = IF commandBlocked THEN round ELSE heroPower(round, o)
    /\ UNCHANGED <<phase, profile, isPaused, upgradeOpen, upgradeChoices,
                   roundSummary, input, selectedHero, selectedWeapon>>
    /\ UNCHANGED adVars

\* triggerHeroPower, from the E key or the power button.
TriggerHeroPower(o) ==
    /\ round' = IF commandBlocked THEN round
                ELSE IF round.powerCharge < POWER_FULL * PowerUnit THEN round
                ELSE heroPower(round, o)
    /\ UNCHANGED <<phase, profile, isPaused, upgradeOpen, upgradeChoices,
                   roundSummary, input, selectedHero, selectedWeapon>>
    /\ UNCHANGED adVars

\* chooseUpgrade, from an upgrade button or the keys 1, 2, 3.
ChooseUpgrade(upgradeId) ==
    /\ upgradeId \in upgradeChoices
    /\ IF ~upgradeOpen \/ phase # "playing"
       THEN UNCHANGED <<round, upgradeOpen, upgradeChoices>>
       ELSE /\ round' = applyUpgrade(round, upgradeId)
            /\ upgradeOpen' = FALSE
            /\ upgradeChoices' = {}
    /\ UNCHANGED <<phase, profile, isPaused, roundSummary, input, selectedHero, selectedWeapon>>
    /\ UNCHANGED adVars

\* Mutation of TogglePause: the pending choice is not looked at.
TogglePauseDuringChoice ==
    /\ phase = "playing"
    /\ isPaused' = ~isPaused
    /\ UNCHANGED <<phase, round, profile, upgradeOpen, upgradeChoices,
                   roundSummary, input, selectedHero, selectedWeapon>>
    /\ UNCHANGED adVars

\* The P key.
TogglePause ==
    /\ phase = "playing" /\ ~upgradeOpen
    /\ isPaused' = ~isPaused
    /\ UNCHANGED <<phase, round, profile, upgradeOpen, upgradeChoices,
                   roundSummary, input, selectedHero, selectedWeapon>>
    /\ UNCHANGED adVars

\* The Resume button of the pause overlay.
Resume ==
    /\ phase = "playing" /\ isPaused
    /\ isPaused' = FALSE
    /\ UNCHANGED <<phase, round, profile, upgradeOpen, upgradeChoices,
                   roundSummary, input, selectedHero, selectedWeapon>>
    /\ UNCHANGED adVars

\* Key and pointer events: the direction the player asks for.
SetInput(d) ==
    /\ input' = d
    /\ UNCHANGED <<phase, round, profile, isPaused, upgradeOpen, upgradeChoices,
                   roundSummary, selectedHero, selectedWeapon>>
    /\ UNCHANGED adVars

\* closeRewarded: both timers are cleared and the ad overlay goes away.
closeRewarded ==
    /\ adInterval' = FALSE
    /\ adStartTimeout' = FALSE
    /\ adState' = "idle"
    /\ adCountdown' = AD_DURATION_SECONDS

\* startRewardedFlow, from the button of the game-over overlay.
startRewardedFlow ==
    /\ phase = "game_over" /\ roundSummary # NoSummary
    /\ adState = "idle"
    /\ rewardedStatus(profile, now).eligible
    /\ adState' = "loading"
    /\ adCountdown' = AD_DURATION_SECONDS
    /\ adStartTimeout' = TRUE
    /\ UNCHANGED <<phase, round, profile, isPaused, upgradeOpen, upgradeChoices,
                   roundSummary, input, selectedHero, selectedWeapon, now, adInterval>>

\* The 800 ms timer of startRewardedFlow: the ad is shown and its interval starts.
AdStart ==
    /\ adStartTimeout
    /\ adStartTimeout' = FALSE
    /\ adState' = "showing"
    /\ adInterval' = TRUE
    /\ UNCHANGED <<phase, round, profile, isPaused, upgradeOpen, upgradeChoices,
                   roundSummary, input, selectedHero, selectedWeapon, now, adCountdown>>

\* Mutation of AdTick: the ad completes two seconds early.
AdTickEarly(u, left) ==
    /\ adInterval
    /\ IF adCountdown <= 3
       THEN /\ profile' = completeRewardedProfile(profile, now, u)
            /\ adInterval' = FALSE
            /\ adStartTimeout' = FALSE
            /\ adState' = "idle"
            /\ adCountdown' = left
       ELSE /\ adCountdown' = adCountdown - 1
            /\ UNCHANGED <<profile, adState, adStartTimeout, adInterval>>
    /\ UNCHANGED <<phase, round, isPaused, upgradeOpen, upgradeChoices,
                   roundSummary, input, selectedHero, selectedWeapon, now>>

\* One tick of the 1 s interval of the shown ad.  At the last second the
\* updater of the countdown calls completeRewarded and returns 0, while
\* closeRewarded inside it sets the countdown to AD_DURATION_SECONDS: `left`
\* is the one of the two that the renderer applies last.
AdTick(u, left) ==
    /\ adInterval
    /\ IF adCountdown <= 1
       THEN /\ profile' = completeRewardedProfile(profile, now, u)
            /\ adInterval' = FALSE
            /\ adStartTimeout' = FALSE
            /\ adState' = "idle"
            /\ adCountdown' = left
       ELSE /\ adCountdown' = adCountdown - 1
            /\ UNCHANGED <<profile, adState, adStartTimeout, adInterval>>
    /\ UNCHANGED <<phase, round, isPaused, upgradeOpen, upgradeChoices,
                   roundSummary, input, selectedHero, selectedWeapon, now>>

\* failRewarded("user_closed"), from the Close Ad button of the shown ad.
failRewarded ==
    /\ adState = "showing"
    /\ closeRewarded
    /\ UNCHANGED <<phase, round, profile, isPaused, upgradeOpen, upgradeChoices,
                   roundSummary, input, selectedHero, selectedWeapon, now>>

\* The wall clock reads t: time has passed, or the clock of the device was set.
ClockReads(t) ==
    /\ now' = t
    /\ UNCHANGED <<phase, round, profile, isPaused, upgradeOpen, upgradeChoices,
                   roundSummary, input, selectedHero, selectedWeapon,
                   adState, adCountdown, adStartTimeout, adInterval>>

META_UPGRADES ==
    [armor   |-> [maxLevel |-> 6, baseCreditCost |-> 190, baseCrystalCost |-> 1],
     agility |-> [maxLevel |-> 6, baseCreditCost |-> 170, baseCrystalCost |-> 1],
     reactor |-> [maxLevel |-> 6, baseCreditCost |-> 210, baseCrystalCost |-> 1]]

MetaUpgradeIds == DOMAIN META_UPGRADES

getMetaUpgradeCost(definition, level) ==
    [credits  |-> definition.baseCreditCost * (level + 1),
     crystals |-> Max(1, definition.baseCrystalCost + level \div 2)]

\* Mutation of purchaseMetaUpgrade: the running round is rebuilt for the new levels.
purchaseMetaUpgradeRebuilds(upgradeId) ==
    LET definition == META_UPGRADES[upgradeId]
        level == profile.metaUpgrades[upgradeId]
        cost == getMetaUpgradeCost(definition, level)
        bought == [profile EXCEPT
                      !.credits = profile.credits - cost.credits,
                      !.crystals = profile.crystals - cost.crystals,
                      !.metaUpgrades[upgradeId] = level + 1]
    IN  /\ IF level >= definition.maxLevel
              \/ profile.credits < cost.credits \/ profile.crystals < cost.crystals
           THEN UNCHANGED <<profile, round>>
           ELSE /\ profile' = bought
                /\ round' = [round EXCEPT
                                !.build = createBaseBuild(round.heroId, bought.metaUpgrades)]
        /\ UNCHANGED <<phase, isPaused, upgradeOpen, upgradeChoices,
                       roundSummary, input, selectedHero, selectedWeapon>>
        /\ UNCHANGED adVars

\* Mutation of purchaseMetaUpgrade: the crystals of the profile are not looked at.
purchaseMetaUpgradeOnCredit(upgradeId) ==
    LET definition == META_UPGRADES[upgradeId]
        level == profile.metaUpgrades[upgradeId]
        cost == getMetaUpgradeCost(definition, level)
    IN  /\ IF level >= definition.maxLevel \/ profile.credits < cost.credits
           THEN UNCHANGED profile
           ELSE profile' = [profile EXCEPT
                               !.credits = profile.credits - cost.credits,
                               !.crystals = profile.crystals - cost.crystals,
                               !.metaUpgrades[upgradeId] = level + 1]
        /\ UNCHANGED <<phase, round, isPaused, upgradeOpen, upgradeChoices,
                       roundSummary, input, selectedHero, selectedWeapon>>
        /\ UNCHANGED adVars

\* purchaseMetaUpgrade, from a button of the meta-upgrade grid.
purchaseMetaUpgrade(upgradeId) ==
    LET definition == META_UPGRADES[upgradeId]
        level == profile.metaUpgrades[upgradeId]
        cost == getMetaUpgradeCost(definition, level)
    IN  /\ IF level >= definition.maxLevel
              \/ profile.credits < cost.credits \/ profile.crystals < cost.crystals
           THEN UNCHANGED profile
           ELSE profile' = [profile EXCEPT
                               !.credits = profile.credits - cost.credits,
                               !.crystals = profile.crystals - cost.crystals,
                               !.metaUpgrades[upgradeId] = level + 1]
        /\ UNCHANGED <<phase, round, isPaused, upgradeOpen, upgradeChoices,
                       roundSummary, input, selectedHero, selectedWeapon>>
        /\ UNCHANGED adVars

\* unlockWeapon, from the card of a weapon that is shown as locked.  A weapon
\* without a price is handed to selectWeaponLoadout.
unlockWeapon(weaponId) ==
    LET definition == getWeapon(weaponId)
    IN  /\ IF definition.unlockCredits <= 0 /\ definition.unlockCrystals <= 0
           THEN IF weaponId \in profile.unlockedWeapons
                THEN /\ profile' = [profile EXCEPT !.selectedWeapon = weaponId]
                     /\ selectedWeapon' = weaponId
                ELSE UNCHANGED <<profile, selectedWeapon>>
           ELSE IF weaponId \in profile.unlockedWeapons
                THEN /\ UNCHANGED profile
                     /\ selectedWeapon' = weaponId
                ELSE IF profile.credits < definition.unlockCredits
                        \/ profile.crystals < definition.unlockCrystals
                THEN UNCHANGED <<profile, selectedWeapon>>
                ELSE /\ profile' = [profile EXCEPT
                                       !.credits = profile.credits - definition.unlockCredits,
                                       !.crystals = profile.crystals - definition.unlockCrystals,
                                       !.unlockedWeapons = profile.unlockedWeapons \cup {weaponId},
                                       !.selectedWeapon = weaponId]
                     /\ selectedWeapon' = weaponId
        /\ UNCHANGED <<phase, round, isPaused, upgradeOpen, upgradeChoices,
                       roundSummary, input, selectedHero>>
        /\ UNCHANGED adVars

\* claimDailyMission, from the Claim button of a mission row.
claimDailyMission(missionId) ==
    LET mission == DAILY_MISSIONS[missionId]
        normalized == refreshDailyCounters(profile, now)
        progress == missionProgressValue(normalized.dailyMissionProgress, mission.metric)
    IN  /\ profile' = IF missionId \in normalized.dailyMissionClaimed THEN normalized
                      ELSE IF progress < mission.goal THEN normalized
                      ELSE [normalized EXCEPT
                               !.credits = normalized.credits + mission.rewardCredits,
                               !.crystals = normalized.crystals + mission.rewardCrystals,
                               !.dailyMissionClaimed =
                                   normalized.dailyMissionClaimed \cup {missionId}]
        /\ UNCHANGED <<phase, round, isPaused, upgradeOpen, upgradeChoices,
                       roundSummary, input, selectedHero, selectedWeapon>>
        /\ UNCHANGED adVars

-----------------------------------------------------------------------------
(* Initial state and environments *)

DEFAULT_META_UPGRADES == [armor |-> 0, agility |-> 0, reactor |-> 0]

\* The wall clock when the component mounts: noon of day 1.
StartOfPlay == DayMs + DayMs \div 2

\* createDefaultProfile, the fields the round reads and writes.
DefaultProfile ==
    [bestScore |-> 0, lastScore |-> 0, totalMatches |-> 0, totalPlaySeconds |-> 0,
     credits |-> 0, crystals |-> 0,
     selectedWeapon |-> "pulse", unlockedWeapons |-> {"pulse"},
     metaUpgrades |-> DEFAULT_META_UPGRADES,
     rewardedClaimsToday |-> 0, rewardedDay |-> localDayKey(StartOfPlay),
     rewardedLastClaimAt |-> 0, rewardedLifetimeClaims |-> 0,
     dailyMissionDay |-> localDayKey(StartOfPlay),
     dailyMissionProgress |-> getDefaultMissionProgress,
     dailyMissionClaimed |-> {}]

\* A stored profile with every weapon unlocked.
ArmoryProfile == [DefaultProfile EXCEPT !.unlockedWeapons = WeaponIds]

\* A stored profile with two levels of armor bought.
VeteranProfile == [DefaultProfile EXCEPT !.metaUpgrades.armor = 2]

\* A stored profile of a player who has played four rounds today, has tuned
\* the reactor five times and has savings.
PatronProfile ==
    [DefaultProfile EXCEPT
        !.totalMatches = 4, !.totalPlaySeconds = 40,
        !.credits = 1300, !.crystals = 4,
        !.metaUpgrades.reactor = 5,
        !.dailyMissionProgress = [kills |-> 12, survivalSeconds |-> 40, matches |-> 4]]

\* A stored profile with the savings of earlier rounds.
StockedProfile == [DefaultProfile EXCEPT !.credits = 400, !.crystals = 2]

InputDirs == {[dx |-> 0, dy |-> 0], [dx |-> 0, dy |-> 1]}

InitWith(profiles) ==
    /\ phase = "home"
    /\ \E eliteU \in {0, 999}, contractU \in {0, 999} :
          round = resetRound("viper", "pulse", DEFAULT_META_UPGRADES, eliteU, contractU)
    /\ profile \in profiles
    /\ isPaused = FALSE
    /\ upgradeOpen = FALSE
    /\ upgradeChoices = {}
    /\ roundSummary = NoSummary
    /\ input = [dx |-> 0, dy |-> 0]
    /\ selectedHero = "viper"
    /\ selectedWeapon = profile.selectedWeapon
    /\ now = StartOfPlay
    /\ adState = "idle"
    /\ adCountdown = AD_DURATION_SECONDS
    /\ adStartTimeout = FALSE
    /\ adInterval = FALSE

\* Whether the frame with delta dt spawns an enemy in r.
spawnDue(r, dt) ==
    \/ (r.spawnClock + dt) * 1000 >= spawnDelay(r.elapsed + dt)
    \/ r.elapsed + dt >= r.nextEliteAt

\* The draws of one callback: each draw that the callback can read takes every
\* value of its set in d, the draws it cannot read take one value.
DrawsOf(d, spawns, kills, levels, ends) ==
    [side : IF spawns THEN d.side ELSE {0},
     roll : IF spawns THEN d.roll ELSE {50},
     radU : IF spawns THEN d.radU ELSE {500},
     eliteU : {0}, speedU : {0},
     conTargetU : d.conTargetU, conDurU : d.conDurU, conNextU : d.conNextU,
     xpU : IF kills THEN d.xpU ELSE {0},
     drop : IF kills THEN d.drop ELSE {900},
     choices : IF levels THEN d.choices ELSE {{}},
     resetEliteU : IF ends THEN d.resetEliteU ELSE {0},
     resetConU : IF ends THEN d.resetConU ELSE {0}]

FrameDraws(d, r, dt) ==
    DrawsOf(d, spawnDue(r, dt),
            r.enemies # <<>> \/ spawnDue(r, dt),
            r.orbs # <<>> \/ r.xp >= r.xpToNext \/ r.enemies # <<>> \/ spawnDue(r, dt),
            r.enemies # <<>> \/ spawnDue(r, dt))

CellsOf(list) == {list[i].pos : i \in 1..Len(list)}

\* The time played in this session: the finished rounds' and the current one's.
SessionTime == profile.totalPlaySeconds * 1000 + (IF phase = "playing" THEN round.elapsed ELSE 0)

GroupMove(kind, from, to) == [k |-> kind, i |-> 0, a |-> from, c |-> to]

SingleMove(kind, index, to) == [k |-> kind, i |-> index, a |-> 0, c |-> to]

\* The newest orb was dropped in the last frame.
FreshOrb(r) == r.orbs # <<>> /\ r.orbs[Len(r.orbs)].ttl >= 14000 - MaxDelta

-----------------------------------------------------------------------------
(* The skirmish: the opening seconds of a round.  Enemies close in on the  *)
(* player at any pace, a volley flies to an enemy or out of the arena in   *)
(* the frame after it is fired, and the player dashes, steers and pauses.  *)

SkirmishFrames == 52

SkirmishDraws ==
    [side |-> {0}, roll |-> {50}, radU |-> {500},
     conTargetU |-> {0}, conDurU |-> {0}, conNextU |-> {0},
     xpU |-> {999}, drop |-> {10, 900},
     choices |-> {{"rapid_fire", "power_shot", "magnet"}},
     resetEliteU |-> {0}, resetConU |-> {0}]

SkirmishMoves(r, dt) ==
    IF dt = 0 THEN {NoMove}
    ELSE IF PlayerCell \in CellsOf(r.projectiles)
    THEN {GroupMove("p", PlayerCell, c) : c \in CellsOf(r.enemies) \cup {OutOfBounds}}
    ELSE {NoMove}
         \cup {SingleMove("e", i, PlayerCell) : i \in 1..Len(r.enemies)}
         \cup {GroupMove("u", a, PlayerCell) : a \in CellsOf(r.pickups) \ {PlayerCell}}

Engaged == phase = "playing" /\ round.enemies # <<>>

Init == InitWith({DefaultProfile})

Next ==
    \/ \E dt \in {0, MaxDelta} :
          \E o \in FrameDraws(SkirmishDraws, round, dt), mv \in SkirmishMoves(round, dt) :
             /\ SessionTime < SkirmishFrames * MaxDelta
             /\ Frame(dt, o, mv)
    \/ \E o \in DrawsOf(SkirmishDraws, FALSE, FALSE, FALSE, TRUE) :
          StartMatch(o)
    \/ \E h \in {"viper", "titan"} : SelectHero(h)
    \/ \E w \in WeaponIds : SelectWeapon(w)
    \/ Engaged /\ TriggerDash
    \/ \E o \in DrawsOf(SkirmishDraws, FALSE, TRUE, FALSE, FALSE) : TriggerHeroPower(o)
    \/ TogglePause
    \/ Resume
    \/ \E d \in InputDirs : Engaged /\ SetInput(d)

Spec == Init /\ [][Next]_vars

-----------------------------------------------------------------------------
(* The campaign: a long round against one enemy at a time.  Every volley   *)
(* leaves the player's cell in the frame after it is fired, for the cell   *)
(* of an enemy; right after a kill the player may walk onto the orbs lying  *)
(* in a cell.                                                              *)

CampaignFrames == 330

CampaignDraws ==
    [side |-> {0}, roll |-> {50}, radU |-> {500},
     conTargetU |-> {0}, conDurU |-> {0}, conNextU |-> {0},
     xpU |-> {999}, drop |-> {900},
     choices |-> {{"rapid_fire", "power_shot", "magnet"}},
     resetEliteU |-> {0}, resetConU |-> {0}]

CampaignMoves(r, dt) ==
    IF dt = 0 THEN {NoMove}
    ELSE IF PlayerCell \in CellsOf(r.projectiles)
    THEN IF r.enemies = <<>> THEN {GroupMove("p", PlayerCell, OutOfBounds)}
         ELSE {GroupMove("p", PlayerCell, r.enemies[findNearestEnemy(r)].pos)}
    ELSE IF FreshOrb(r)
    THEN {NoMove} \cup {GroupMove("o", a, PlayerCell) : a \in CellsOf(r.orbs) \ {PlayerCell}}
    ELSE {NoMove}

CampaignInit == InitWith({ArmoryProfile})

CampaignNext ==
    \/ \E dt \in {0, MaxDelta} :
          \E o \in FrameDraws(CampaignDraws, round, dt), mv \in CampaignMoves(round, dt) :
             /\ SessionTime < CampaignFrames * MaxDelta
             /\ Frame(dt, o, mv)
    \/ \E o \in DrawsOf(CampaignDraws, FALSE, FALSE, FALSE, TRUE) :
          StartMatch(o)
    \/ \E h \in {"titan"} : SelectHero(h)
    \/ \E id \in UpgradeIds : ChooseUpgrade(id)
    \/ TogglePause
    \/ Resume
    \/ (isPaused \/ upgradeOpen) /\ TriggerDash
    \/ \E o \in DrawsOf(CampaignDraws, FALSE, TRUE, FALSE, FALSE) :
          (isPaused \/ upgradeOpen) /\ TriggerHeroPower(o)

SpecCampaign == CampaignInit /\ [][CampaignNext]_vars

-----------------------------------------------------------------------------
(* The siege: a long round in which no orb is collected.  Every volley is   *)
(* aimed at the nearest enemy, except during one lull; an enemy reaches     *)
(* the player only when the shield is full and a restore is at hand; the    *)
(* hero power is fired on its cue, and asked for at any time before it is   *)
(* charged.                                                                  *)

SiegeFrames == 540

\* The number of kills after which the enemies keep out of range for a while.
LullKills == 2

\* The lull lasts until the combo has expired.
Lull(r) == r.kills = LullKills /\ r.elapsed <= r.comboExpireAt

\* The hero power is charged.
Charged(r) == r.powerCharge >= POWER_FULL * PowerUnit

\* The shield is not full.
Hurt(r) == r.build.shield < r.build.maxShield

\* The cell next to the player: within the blade storm, out of contact.
NearCell == PlayerCell + 1

\* An enemy may reach the player: it has just spawned, the player was never
\* invulnerable in this round, and the hero power or a contract can restore
\* the shield.
HitCue(r) ==
    /\ r.enemies # <<>>
    /\ r.spawnClock = 0
    /\ r.invulnerableUntil = 0
    /\ Charged(r) \/ r.contractTarget > 0

\* The player has a reason to fire the hero power: an enemy is within the
\* first blade storm of the round, or the shield is down as the
\* invulnerability window closes.
PowerCue(r) ==
    /\ Charged(r)
    /\ \/ r.heroId = "viper" /\ NearCell \in CellsOf(r.enemies) /\ r.frenzyUntil = 0
       \/ r.heroId = "titan" /\ Hurt(r) /\ r.elapsed = r.invulnerableUntil

\* The newest pickup was dropped in the last frame.
FreshPickup(r) == r.pickups # <<>> /\ r.pickups[Len(r.pickups)].ttl >= 15000 - MaxDelta

\* While the shield is down and no pickup lies in the arena, the drop is a shield.
SiegeDraws(r) ==
    [side |-> {0}, roll |-> {50}, radU |-> {500},
     conTargetU |-> {0}, conDurU |-> {0}, conNextU |-> {0},
     xpU |-> {999}, drop |-> IF Hurt(r) /\ r.pickups = <<>> THEN {10} ELSE {900},
     choices |-> {{"rapid_fire", "power_shot", "magnet"}},
     resetEliteU |-> {0}, resetConU |-> {0}]

\* The volley at the player's cell flies to the nearest enemy, or out of the
\* arena when there is none or during the lull.
AimedVolley(r) ==
    IF r.enemies = <<>> \/ Lull(r) THEN GroupMove("p", PlayerCell, OutOfBounds)
    ELSE GroupMove("p", PlayerCell, r.enemies[findNearestEnemy(r)].pos)

SiegeMoves(r) ==
    IF HitCue(r)
    THEN {SingleMove("e", Len(r.enemies), PlayerCell),
          IF PlayerCell \in CellsOf(r.projectiles) THEN AimedVolley(r) ELSE NoMove}
    ELSE IF PlayerCell \in CellsOf(r.projectiles)
    THEN {AimedVolley(r)}
    ELSE IF FreshPickup(r) /\ Hurt(r)
    THEN {NoMove, SingleMove("u", Len(r.pickups), PlayerCell)}
    ELSE IF r.heroId = "viper" /\ Charged(r) /\ r.frenzyUntil = 0 /\ r.enemies # <<>> /\ ~PowerCue(r)
    THEN {SingleMove("e", Len(r.enemies), NearCell)}
    ELSE {NoMove}

SiegeInit == InitWith({DefaultProfile})

SiegeNext ==
    \/ \E o \in FrameDraws(SiegeDraws(round), round, MaxDelta), mv \in SiegeMoves(round) :
          /\ SessionTime < SiegeFrames * MaxDelta
          /\ Frame(MaxDelta, o, mv)
    \/ \E o \in DrawsOf(SiegeDraws(round), FALSE, FALSE, FALSE, TRUE) :
          StartMatch(o)
    \/ \E h \in {"titan"} : SelectHero(h)
    \/ \E o \in DrawsOf(SiegeDraws(round), FALSE, TRUE, FALSE, FALSE) :
          (PowerCue(round) \/ ~Charged(round)) /\ TriggerHeroPower(o)

SpecSiege == SiegeInit /\ [][SiegeNext]_vars

-----------------------------------------------------------------------------
(* Shield and combo (siege) *)

\* C1: in every reachable state the shield is between 0 and build.maxShield.
C1_ShieldWithinBounds ==
    /\ 0 <= round.build.shield
    /\ round.build.shield <= round.build.maxShield

\* The Titan power has just been fired with the shield down, and the shield
\* is full.
C1_Witness ==
    /\ phase = "playing"
    /\ round.heroId = "titan"
    /\ round.powerCharge = 0
    /\ round.stasisUntil = round.elapsed + 1300
    /\ round.build.shield = round.build.maxShield

\* C2: in every reachable state the combo is between 1 and 9.
C2_ComboWithinBounds == 1 <= round.combo /\ round.combo <= COMBO_CAP

\* The cap has held the combo back: more kills in a row than the cap.
C2_Witness ==
    /\ round.combo = COMBO_CAP
    /\ round.kills > LullKills + COMBO_CAP
    /\ round.elapsed <= round.comboExpireAt

\* C3: a step of a round in which enemies are defeated, at elapsed time t,
\* leaves combo = min(9, combo + the number of kills) if t <= comboExpireAt
\* before the step, and counts the kills from 0 otherwise (combo = 1 after one
\* kill); comboExpireAt = t + 2.7 s and bestCombo = max(bestCombo, combo).
C3_ComboOnKill ==
    [][(phase = "playing" /\ phase' = "playing" /\ round'.kills > round.kills) =>
         /\ round'.combo =
               Min(9, (IF round'.elapsed <= round.comboExpireAt THEN round.combo ELSE 0)
                      + (round'.kills - round.kills))
         /\ round'.comboExpireAt = round'.elapsed + 2700
         /\ round'.bestCombo = Max(round.bestCombo, round'.combo)]_vars

\* A kill has just restarted a combo that had expired.
C3_Witness ==
    /\ phase = "playing"
    /\ round.combo = 1
    /\ round.bestCombo > 1
    /\ round.comboExpireAt = round.elapsed + COMBO_WINDOW

-----------------------------------------------------------------------------
(* Contact (skirmish) *)

\* Some enemy of r overlaps the player.
Contact(r) == \E i \in 1..Len(r.enemies) : touches(r.enemies[i])

\* The highest-index enemy of r that overlaps the player.
Toucher(r) ==
    CHOOSE i \in 1..Len(r.enemies) :
        touches(r.enemies[i]) /\ \A j \in (i + 1)..Len(r.enemies) : ~touches(r.enemies[j])

\* The contact rule on b, the round as the enemy loop finds it: the contact
\* is ignored while invulnerable, absorbed by the last shield, fatal without one.
ContactRule(b) ==
    /\ b.elapsed <= b.invulnerableUntil =>
          /\ enemies(b).r.build.shield = b.build.shield
          /\ enemies(b).r.enemies = b.enemies
          /\ phaseAfter(enemies(b)) = "playing"
    /\ (b.elapsed > b.invulnerableUntil /\ b.build.shield = 1) =>
          /\ enemies(b).r.build.shield = 0
          /\ enemies(b).r.enemies = RemoveAt(b.enemies, Toucher(b))
          /\ enemies(b).r.invulnerableUntil = b.elapsed + 1000
          /\ phaseAfter(enemies(b)) = "playing"
    /\ (b.elapsed > b.invulnerableUntil /\ b.build.shield = 0) =>
          phaseAfter(enemies(b)) = "game_over"

\* C4: from every reachable state, every frame the round can simulate in which
\* an enemy touches the player follows the contact rule: contact at
\* elapsed <= invulnerableUntil changes neither shield, enemy list nor phase;
\* contact at elapsed = t with shield 1 makes the shield 0, removes that enemy
\* and sets invulnerableUntil = t + 1 s; contact after the window with shield 0
\* ends the round.
C4_ContactSequence ==
    simulating =>
       \A dt \in {0, MaxDelta} :
          \A o \in FrameDraws(SkirmishDraws, round, dt), mv \in SkirmishMoves(round, dt) :
             Contact(beforeEnemies(round, dt, o, mv, input))
                => ContactRule(beforeEnemies(round, dt, o, mv, input))

\* A contact is being ignored: the last shield is gone, the window is open
\* and an enemy stands on the player.
C4_Witness ==
    /\ phase = "playing"
    /\ round.build.shield = 0
    /\ round.elapsed <= round.invulnerableUntil
    /\ Contact(round)

\* C5: the phase leaves "playing" only for "game_over", and only in a simulated
\* frame whose enemy loop finds an enemy touching the player with shield 0 and
\* elapsed > invulnerableUntil.
C5_OnlyFatalContactEndsRound ==
    [][(phase = "playing" /\ phase' # "playing") =>
         /\ phase' = "game_over"
         /\ simulating
         /\ \E dt \in {0, MaxDelta} :
              \E o \in FrameDraws(SkirmishDraws, round, dt), mv \in SkirmishMoves(round, dt) :
                 /\ Frame(dt, o, mv)
                 /\ Contact(beforeEnemies(round, dt, o, mv, input))
                 /\ beforeEnemies(round, dt, o, mv, input).build.shield = 0
                 /\ beforeEnemies(round, dt, o, mv, input).elapsed
                       > beforeEnemies(round, dt, o, mv, input).invulnerableUntil]_vars

\* A round has ended.
C5_Witness == phase = "game_over" /\ roundSummary # NoSummary

-----------------------------------------------------------------------------
(* Suspension, leveling and zero-delta frames (campaign) *)

\* The simulation is suspended.
Suspended == phase # "playing" \/ isPaused \/ upgradeOpen

\* C6: while the game is paused, an upgrade choice is pending or the phase is
\* not "playing", no step changes the round (so a frame, a dash and a hero
\* power leave it as it is) except starting a match and choosing one of the
\* offered upgrades.
C6_SuspendedRoundFrozen ==
    [][Suspended =>
         \/ round' = round
         \/ phase # "playing" /\ phase' = "playing" /\ round'.elapsed = 0
         \/ /\ phase = "playing" /\ upgradeOpen
            /\ \E id \in upgradeChoices : round' = applyUpgrade(round, id)]_vars

\* A paused round with an enemy in the arena and the dash ready.
C6_Witness ==
    /\ phase = "playing"
    /\ isPaused
    /\ round.enemies # <<>>
    /\ round.dashReadyAt <= round.elapsed * 1000

\* C7 as stated: in every state of a round xp < xpToNext.
C7_XpBelowThreshold == phase = "playing" => round.xp < round.xpToNext

\* C7, amended: no step of a round raises the level by more than one, and
\* after a simulated step either xp < xpToNext or the step has taken one
\* level and opened the upgrade choice.
C7_OneLevelPerStep ==
    [][(phase = "playing" /\ phase' = "playing") =>
         /\ round'.level <= round.level + 1
         /\ (simulating /\ round' # round) =>
               \/ round'.xp < round'.xpToNext
               \/ upgradeOpen' /\ round'.level = round.level + 1]_vars

\* A level has been taken and the experience left still reaches the next
\* threshold.
C7_Witness ==
    /\ phase = "playing"
    /\ upgradeOpen
    /\ round.level = 2
    /\ round.xp >= round.xpToNext

\* The round before the leveling of a frame.
beforeLeveling(dt, o, mv) ==
    afterEnemies(enemies(beforeEnemies(round, dt, o, mv, input)), dt, o).r

\* What leveling makes of the round pre.
LevelRule(pre) ==
    /\ round'.xp = pre.xp - pre.xpToNext
    /\ round'.level = pre.level + 1
    /\ round'.xpToNext = (pre.xpToNext * 122) \div 100 + 16
    /\ pre.xpToNext = 70 => round'.xpToNext = 101
    /\ upgradeOpen'
    /\ ~simulating'

\* C8: a frame that ends a simulated step with xp = X >= xpToNext = T and does
\* not end the round leaves xp = X - T, level + 1 and
\* xpToNext = floor(T * 1.22 + 16) (101 for 70), and opens the upgrade choice,
\* so that the next frame does not simulate.
C8_LevelUp ==
    [][\A dt \in {0, MaxDelta} :
         \A o \in FrameDraws(CampaignDraws, round, dt), mv \in CampaignMoves(round, dt) :
            (/\ simulating
             /\ Frame(dt, o, mv)
             /\ phase' = "playing"
             /\ beforeLeveling(dt, o, mv).xp >= beforeLeveling(dt, o, mv).xpToNext)
               => LevelRule(beforeLeveling(dt, o, mv))]_vars

\* The first level has been taken from 78 experience points.
C8_Witness ==
    /\ phase = "playing"
    /\ upgradeOpen
    /\ round.level = 2
    /\ round.xpToNext = 101
    /\ round.xp = 8

\* A frame with delta 0 on the round as it is.
zeroFrame(o) == simulate(round, 0, o, NoMove, input)

\* C9 as stated: a simulated step with dt = 0 leaves the round unchanged and
\* takes no level.
C9_ZeroDeltaIdle ==
    simulating =>
       \A o \in FrameDraws(CampaignDraws, round, 0) :
          zeroFrame(o).r = round /\ ~zeroFrame(o).leveled

\* What a step with dt = 0 keeps of the round r0: the clocks, the spawn
\* counters, the contact timers and the shield; it adds no enemy.
ZeroDeltaRule(s, r0) ==
    /\ ~s.fatal
    /\ s.r.elapsed = r0.elapsed
    /\ s.r.spawnClock = r0.spawnClock
    /\ s.r.spawnedEnemies = r0.spawnedEnemies
    /\ s.r.nextEliteAt = r0.nextEliteAt
    /\ Len(s.r.enemies) <= Len(r0.enemies)
    /\ s.r.invulnerableUntil = r0.invulnerableUntil
    /\ s.r.dashingUntil = r0.dashingUntil
    /\ s.r.dashReadyAt = r0.dashReadyAt
    /\ s.r.build.shield >= r0.build.shield

\* C9, amended: a simulated step with dt = 0 does not advance elapsed or the
\* spawn clock, spawns no enemy, changes no contact or dash timer, takes no
\* shield and does not end the round.
C9_ZeroDeltaClocks ==
    simulating =>
       \A o \in FrameDraws(CampaignDraws, round, 0) : ZeroDeltaRule(zeroFrame(o), round)

\* A simulating round in which a step with dt = 0 has work to do: the
\* experience left after a level reaches the next threshold.
C9_Witness ==
    /\ simulating
    /\ round.elapsed > 0
    /\ round.xp >= round.xpToNext

-----------------------------------------------------------------------------
(* The lance: the opening seconds of a round with any weapon.  A volley     *)
(* flies to an enemy or out of the arena, and a projectile that is among    *)
(* the enemies stays there, flies on to other enemies or leaves.            *)

LanceFrames == 76

LanceDraws ==
    [side |-> {0, 2}, roll |-> {50}, radU |-> {500},
     conTargetU |-> {0}, conDurU |-> {0}, conNextU |-> {0},
     xpU |-> {999}, drop |-> {900},
     choices |-> {{"rapid_fire", "power_shot", "magnet"}},
     resetEliteU |-> {0}, resetConU |-> {0}]

LanceMoves(r, dt) ==
    IF dt = 0 THEN {NoMove}
    ELSE IF PlayerCell \in CellsOf(r.projectiles)
    THEN {GroupMove("p", PlayerCell, c) : c \in CellsOf(r.enemies) \cup {OutOfBounds}}
    ELSE {NoMove} \cup UNION {{GroupMove("p", a, c) :
                                  c \in (CellsOf(r.enemies) \cup {OutOfBounds}) \ {a}} :
                               a \in CellsOf(r.projectiles)}

LanceInit == InitWith({ArmoryProfile})

LanceNext ==
    \/ \E dt \in {0, MaxDelta} :
          \E o \in FrameDraws(LanceDraws, round, dt), mv \in LanceMoves(round, dt) :
             /\ SessionTime < LanceFrames * MaxDelta
             /\ Frame(dt, o, mv)
    \/ \E o \in DrawsOf(LanceDraws, FALSE, FALSE, FALSE, TRUE) :
          StartMatch(o)
    \/ \E h \in {"titan"} : SelectHero(h)
    \/ \E w \in WeaponIds : phase = "home" /\ SelectWeapon(w)

SpecLance == LanceInit /\ [][LanceNext]_vars

-----------------------------------------------------------------------------
(* Piercing (lance) *)

\* The pierce a weapon's projectiles are created with.
createdPierce(weaponId) == IF weaponId = "lance" THEN 2 ELSE 0

\* The number of enemies of r that differ from, or are missing in, the list after.
Struck(before, after) ==
    IF Len(after) = Len(before)
    THEN Cardinality({j \in 1..Len(before) : after[j] # before[j]})
    ELSE Len(before) - Len(after)

\* The rule of one turn of the projectile loop: pre is the round the turn
\* finds, post the round it leaves, p the projectile at index i after aging.
PierceRule(pre, post, i, p) ==
    IF p.ttl <= 0 \/ p.pos = OutOfBounds \/ inReach(pre, p) = {}
    THEN post.enemies = pre.enemies
    ELSE /\ Struck(pre.enemies, post.enemies) = 1
         /\ Len(post.enemies) = Len(pre.enemies) =>
               \E j \in inReach(pre, p) :
                  post.enemies = [pre.enemies EXCEPT ![j].hp = pre.enemies[j].hp - p.damage]
         /\ p.pierce > 0 =>
               /\ Len(post.projectiles) = Len(pre.projectiles)
               /\ post.projectiles[i].pierce = p.pierce - 1
               /\ post.projectiles[i].damage = Max(1, p.damage - 1)
               /\ post.projectiles[i].pos = p.pos
         /\ p.pierce = 0 => post.projectiles = RemoveAt(pre.projectiles, i)

\* The rule for every turn of the projectile loop on the round b.
PierceRuleInLoop(b, dt, o) ==
    \A i \in 1..Len(b.projectiles) :
        PierceRule(projectileLoop(b, Len(b.projectiles), i, dt, o),
                   projectileLoop(b, Len(b.projectiles), i - 1, dt, o),
                   i,
                   aged(projectileLoop(b, Len(b.projectiles), i, dt, o), i, dt))

\* C10: a projectile's pierce never exceeds the pierce it was created with,
\* so that it has registered at most N hits while it flies; and in every frame
\* the round can simulate, each turn of the projectile loop strikes at most
\* one enemy, a hit with pierce > 0 leaves the projectile in place with one
\* pierce less and its damage reduced by 1 but not below 1, and a hit with
\* pierce = 0 removes it.
C10_Pierce ==
    /\ \A i \in 1..Len(round.projectiles) :
          /\ round.projectiles[i].pierce \in 0..createdPierce(round.weaponId)
          /\ round.projectiles[i].damage >= 1
    /\ simulating =>
          \A dt \in {0, MaxDelta} :
             \A o \in FrameDraws(LanceDraws, round, dt), mv \in LanceMoves(round, dt) :
                PierceRuleInLoop(enemies(beforeEnemies(round, dt, o, mv, input)).r, dt, o)

\* A lance has pierced twice, its damage held at 1 the second time, and is
\* among the enemies for its last hit.
C10_Witness ==
    /\ phase = "playing"
    /\ round.weaponId = "lance"
    /\ \E i \in 1..Len(round.projectiles) :
          /\ round.projectiles[i].pierce = 0
          /\ round.projectiles[i].damage = 1
          /\ inReach(round, round.projectiles[i]) # {}

-----------------------------------------------------------------------------
(* Defeat by a projectile (lance) *)

\* The rule of one turn of the projectile loop for kills and orbs: pre is the
\* round the turn finds, post the round it leaves, p the aged projectile.
DefeatRule(pre, post, p) ==
    IF p.ttl <= 0 \/ p.pos = OutOfBounds \/ inReach(pre, p) = {}
    THEN /\ post.kills = pre.kills
         /\ post.orbs = pre.orbs
         /\ post.enemies = pre.enemies
    ELSE LET j == firstHit(pre, p)
             enemy == pre.enemies[j]
         IN  IF enemy.hp - p.damage <= 0
             THEN /\ post.enemies = RemoveAt(pre.enemies, j)
                  /\ post.kills = pre.kills + 1
                  /\ Len(post.orbs) = Len(pre.orbs) + 1
                  /\ SubSeq(post.orbs, 1, Len(pre.orbs)) = pre.orbs
                  /\ post.orbs[Len(post.orbs)].pos = enemy.pos
             ELSE /\ post.kills = pre.kills
                  /\ post.orbs = pre.orbs
                  /\ Len(post.enemies) = Len(pre.enemies)
                  /\ post.enemies[j].hp = enemy.hp - p.damage
                  /\ post.enemies[j].hp > 0

\* The rule for every turn of the projectile loop on the round b.
DefeatRuleInLoop(b, dt, o) ==
    \A i \in 1..Len(b.projectiles) :
        DefeatRule(projectileLoop(b, Len(b.projectiles), i, dt, o),
                   projectileLoop(b, Len(b.projectiles), i - 1, dt, o),
                   aged(projectileLoop(b, Len(b.projectiles), i, dt, o), i, dt))

\* C11: in every frame the round can simulate, a projectile hit that brings
\* the enemy's hp to 0 or less removes that enemy, adds exactly 1 to kills and
\* appends exactly one orb at the enemy's position, all within the same turn of
\* the projectile loop; a hit that leaves hp > 0, and a turn without a hit,
\* change neither kills nor the orb list.
C11_DefeatByProjectile ==
    simulating =>
        \A dt \in {0, MaxDelta} :
           \A o \in FrameDraws(LanceDraws, round, dt), mv \in LanceMoves(round, dt) :
              DefeatRuleInLoop(enemies(beforeEnemies(round, dt, o, mv, input)).r, dt, o)

\* A kill has just dropped its orb while another enemy stands wounded.
C11_Witness ==
    /\ phase = "playing"
    /\ round.kills >= 1
    /\ FreshOrb(round)
    /\ \E j \in 1..Len(round.enemies) :
          /\ round.enemies[j].hp < round.enemies[j].maxHp
          /\ round.enemies[j].hp > 0

-----------------------------------------------------------------------------
(* Hero power (siege) *)

\* A step of the siege that changes the round without advancing its clock:
\* every frame of the siege advances elapsed, so this is a cast of the hero power.
Cast ==
    /\ phase = "playing" /\ phase' = "playing"
    /\ round'.elapsed = round.elapsed
    /\ round' # round

\* C12: the hero power, asked for at any charge, changes the round only when
\* powerCharge is 100, and the round it leaves has powerCharge = 0, whatever
\* charge the enemies killed by the cast added.
C12_PowerAtFullCharge ==
    [][Cast => /\ round.powerCharge = POWER_FULL * PowerUnit
               /\ round'.powerCharge = 0]_vars

\* Viper's blade storm has just killed an enemy, and the charge is 0.
C12_Witness ==
    /\ phase = "playing"
    /\ round.heroId = "viper"
    /\ round.powerCharge = 0
    /\ round.elapsed > 0
    /\ round.dashingUntil = round.elapsed + 440
    /\ round.comboExpireAt = round.elapsed + COMBO_WINDOW

-----------------------------------------------------------------------------
(* The horde: a long round in which no enemy is killed and none reaches the *)
(* player.  Every volley leaves the arena in the frame after it is fired.   *)

HordeFrames == 1215

HordeDraws ==
    [side |-> {0}, roll |-> {50}, radU |-> {500},
     conTargetU |-> {0}, conDurU |-> {0}, conNextU |-> {0},
     xpU |-> {999}, drop |-> {900},
     choices |-> {{"rapid_fire", "power_shot", "magnet"}},
     resetEliteU |-> {0, 13}, resetConU |-> {0}]

HordeMoves(r) ==
    IF PlayerCell \in CellsOf(r.projectiles)
    THEN {GroupMove("p", PlayerCell, OutOfBounds)}
    ELSE {NoMove}

HordeInit == InitWith({DefaultProfile})

HordeNext ==
    \/ \E o \in FrameDraws(HordeDraws, round, MaxDelta), mv \in HordeMoves(round) :
          /\ SessionTime < HordeFrames * MaxDelta
          /\ Frame(MaxDelta, o, mv)
    \/ \E o \in DrawsOf(HordeDraws, FALSE, FALSE, FALSE, TRUE) :
          StartMatch(o)

SpecHorde == HordeInit /\ [][HordeNext]_vars

-----------------------------------------------------------------------------
(* Enemy cap (horde) *)

\* C13: in every reachable state the number of live enemies is at most 95.
C13_EnemiesWithinCap == Len(round.enemies) <= ENEMY_CAP

-----------------------------------------------------------------------------
(* The barrage: one round with any hero and any weapon in which no volley   *)
(* hits or leaves the arena, so that every projectile lives out its ttl,    *)
(* and the hero power is fired at any time once it is charged.              *)

BarrageFrames == 590

BarrageDraws ==
    [side |-> {0}, roll |-> {50}, radU |-> {500},
     conTargetU |-> {0}, conDurU |-> {0}, conNextU |-> {0},
     xpU |-> {999}, drop |-> {900},
     choices |-> {{"rapid_fire", "power_shot", "magnet"}},
     resetEliteU |-> {0}, resetConU |-> {0}]

BarrageInit == InitWith({ArmoryProfile})

BarrageNext ==
    \/ \E o \in FrameDraws(BarrageDraws, round, MaxDelta) :
          /\ SessionTime < BarrageFrames * MaxDelta
          /\ Frame(MaxDelta, o, NoMove)
    \/ \E o \in DrawsOf(BarrageDraws, FALSE, FALSE, FALSE, TRUE) :
          phase = "home" /\ StartMatch(o)
    \/ \E h \in HeroIds : SelectHero(h)
    \/ \E w \in WeaponIds : phase = "home" /\ SelectWeapon(w)
    \/ \E o \in DrawsOf(BarrageDraws, FALSE, TRUE, FALSE, FALSE) :
          Charged(round) /\ TriggerHeroPower(o)

SpecBarrage == BarrageInit /\ [][BarrageNext]_vars

-----------------------------------------------------------------------------
(* Projectile cap (barrage) *)

-----------------------------------------------------------------------------
(* Spawn delay (horde) *)

\* The shape of the delay at the round's clock: 1.14 s at elapsed = 0, within
\* [0.30 s, 1.14 s], and not longer at any later instant of the next frame.
DelayShape ==
    /\ spawnDelay(0) = START_SPAWN_DELAY * 1000
    /\ \A d \in 0..MaxDelta :
          /\ spawnDelay(round.elapsed + d) >= MIN_SPAWN_DELAY * 1000
          /\ spawnDelay(round.elapsed + d) <= START_SPAWN_DELAY * 1000
          /\ spawnDelay(round.elapsed + d) <= spawnDelay(round.elapsed)

\* A simulated frame of the horde.
HordeFrame ==
    /\ phase = "playing" /\ phase' = "playing"
    /\ round'.elapsed = round.elapsed + MaxDelta

\* What a simulated frame spawns: a regular enemy exactly when the advanced
\* spawn clock has reached the delay at the advanced elapsed time.
SpawnRule ==
    LET due == (round.spawnClock + MaxDelta) * 1000 >= spawnDelay(round'.elapsed)
        eliteDue == round'.elapsed >= round.nextEliteAt
        newest == round'.enemies[Len(round'.enemies)]
    IN  /\ round'.spawnedEnemies = round.spawnedEnemies + (IF due THEN 1 ELSE 0)
                                                         + (IF eliteDue THEN 1 ELSE 0)
        /\ due => /\ round'.spawnClock = 0
                  /\ round'.enemies # <<>>
                  /\ ~newest.elite
                  /\ newest.hp = newest.maxHp
        /\ ~due => /\ round'.spawnClock = round.spawnClock + MaxDelta
                   /\ round'.enemies = IF eliteDue THEN round'.enemies ELSE round.enemies
                   /\ eliteDue => round'.enemies[Len(round'.enemies)].elite

\* C15: the regular spawn delay is 1.14 s at elapsed = 0, stays within
\* [0.30 s, 1.14 s], never grows as elapsed grows, and a frame spawns a regular
\* enemy exactly when spawnClock has reached the delay, leaving spawnClock = 0.
C15_SpawnDelay == []DelayShape /\ [][HordeFrame => SpawnRule]_vars

\* The delay is at its floor and a regular enemy has just been spawned.
C15_Witness ==
    /\ phase = "playing"
    /\ spawnDelay(round.elapsed) = MIN_SPAWN_DELAY * 1000
    /\ round.spawnClock = 0
    /\ round.enemies # <<>>
    /\ ~round.enemies[Len(round.enemies)].elite

-----------------------------------------------------------------------------
(* Phases (skirmish) *)

PhaseChanges ==
    {<<"home", "playing">>, <<"playing", "game_over">>,
     <<"game_over", "playing">>, <<"game_over", "home">>}

\* The round is as resetRound leaves it.
FreshRound(r) ==
    /\ r.elapsed = 0
    /\ r.enemies = <<>> /\ r.projectiles = <<>> /\ r.orbs = <<>> /\ r.pickups = <<>>
    /\ r.level = 1 /\ r.xp = 0 /\ r.combo = 1
    /\ r.kills = 0 /\ r.score = 0 /\ r.upgrades = {}

\* C16: every change of phase is home -> playing, playing -> game_over,
\* game_over -> playing or game_over -> home; the step that enters "playing"
\* installs a fresh round for the selected hero with the upgrade choice closed
\* and the pause cleared; and no step taken while playing puts the round's
\* clock back, so that a round is never started while one is played.
C16_PhaseChanges ==
    [][/\ phase' # phase => <<phase, phase'>> \in PhaseChanges
       /\ (phase # "playing" /\ phase' = "playing") =>
             /\ FreshRound(round')
             /\ round'.heroId = selectedHero
             /\ ~upgradeOpen'
             /\ ~isPaused'
       /\ (phase = "playing" /\ phase' = "playing") =>
             round'.elapsed >= round.elapsed]_vars

\* A second round has been started from the game-over screen.
C16_Witness ==
    /\ phase = "playing"
    /\ profile.totalMatches >= 1
    /\ FreshRound(round)
    /\ roundSummary = NoSummary

\* C17: on the game-over screen some command of the component leads to the
\* phase "home".
C17_HomeFromGameOver ==
    phase = "game_over" => ENABLED (Next /\ phase' = "home")

-----------------------------------------------------------------------------
(* Upgrades (campaign) *)

\* A step that closes the upgrade choice of the round being played: chooseUpgrade.
Chosen ==
    /\ phase = "playing" /\ phase' = "playing"
    /\ upgradeOpen /\ ~upgradeOpen'
    /\ round'.elapsed = round.elapsed

\* C18: every upgrade choice of a round takes an upgrade that was not taken
\* before in that round, so that no upgrade's stat change is applied twice.
C18_UpgradeTakenOnce ==
    [][Chosen => /\ round'.upgrades # round.upgrades
                 /\ Cardinality(round'.upgrades) = Cardinality(round.upgrades) + 1]_vars

-----------------------------------------------------------------------------
(* The payout: one round of idle score.  No enemy is killed; the first      *)
(* enemy to spawn takes the shield, and a later one ends the round in any   *)
(* frame, so that the round ends with every whole score in turn.            *)

PayoutFrames == 400

\* The scores the shape of the reward is looked at for.
MaxScore == 450

PayoutDraws ==
    [side |-> {0}, roll |-> {50}, radU |-> {500},
     conTargetU |-> {0}, conDurU |-> {0}, conNextU |-> {0},
     xpU |-> {999}, drop |-> {900},
     choices |-> {{"rapid_fire", "power_shot", "magnet"}},
     resetEliteU |-> {0}, resetConU |-> {0}]

PayoutMoves(r) ==
    IF PlayerCell \in CellsOf(r.projectiles)
    THEN {GroupMove("p", PlayerCell, OutOfBounds)}
    ELSE IF r.enemies = <<>> THEN {NoMove}
    ELSE IF ~Hurt(r) THEN {SingleMove("e", 1, PlayerCell)}
    ELSE {NoMove, SingleMove("e", 1, PlayerCell)}

PayoutInit == InitWith({DefaultProfile})

PayoutNext ==
    \/ \E o \in FrameDraws(PayoutDraws, round, MaxDelta), mv \in PayoutMoves(round) :
          /\ SessionTime < PayoutFrames * MaxDelta
          /\ Frame(MaxDelta, o, mv)
    \/ \E o \in DrawsOf(PayoutDraws, FALSE, FALSE, FALSE, TRUE) :
          phase = "home" /\ StartMatch(o)

SpecPayout == PayoutInit /\ [][PayoutNext]_vars

-----------------------------------------------------------------------------
(* Match reward (payout) *)

\* The reward formula in exact arithmetic.
ExactCredits(score) == Min(130, 10 + (58 * score) \div 100)
ExactCrystals(score) == Min(4, score \div 70)

\* The scores at which the double product 0.58 * s falls short of the whole
\* number 58 s / 100 while the credits are below their cap.
ShortScores == {50, 100, 200}

\* What calculateMatchReward does over the scores up to MaxScore: monotone,
\* within its ranges, and one credit short of the formula at ShortScores.
RewardShape ==
    /\ \A score \in 0..MaxScore :
          LET reward == calculateMatchReward(score)
              next == calculateMatchReward(score + 1)
          IN  /\ reward.credits \in 10..130
              /\ reward.crystals \in 0..4
              /\ reward.crystals = ExactCrystals(score)
              /\ reward.credits = IF score \in ShortScores THEN ExactCredits(score) - 1
                                  ELSE ExactCredits(score)
              /\ next.credits >= reward.credits
              /\ next.crystals >= reward.crystals
    /\ \A score \in 1..MaxScore :
          calculateMatchReward(-score) = calculateMatchReward(0)

\* C19 as stated: the round that has ended paid credits = min(130, 10 +
\* floor(0.58 s)) and crystals = min(4, floor(s / 70)) for its floored score s.
C19_RewardExact ==
    phase = "game_over" =>
        /\ roundSummary.rewardCredits = ExactCredits(roundSummary.score)
        /\ roundSummary.rewardCrystals = ExactCrystals(roundSummary.score)

-----------------------------------------------------------------------------
(* The rewarded break: one short round, then the game-over overlay, where   *)
(* the player starts rewarded ads, watches them to the end or closes them,  *)
(* while the wall clock moves on by cooldowns and days, or is set back.     *)

\* The cooldowns that pass on the day of the round.
ClockSteps == 8

\* The instants the wall clock reads: the day of the round by cooldowns, the
\* same hour a day before and a day after.
Instants ==
    {StartOfPlay + k * REWARDED_COOLDOWN_SECONDS * 1000 : k \in 0..ClockSteps}
        \cup {StartOfPlay - DayMs, StartOfPlay + DayMs}

\* The random values of rollRewardedBonus: the small and the large tier.
BonusRolls == {0, 900}

BreakMoves(r) ==
    IF r.enemies = <<>> THEN {NoMove} ELSE {SingleMove("e", 1, PlayerCell)}

BreakInit == InitWith({DefaultProfile})

BreakNext ==
    \/ \E o \in FrameDraws(PayoutDraws, round, MaxDelta), mv \in BreakMoves(round) :
          simulating /\ Frame(MaxDelta, o, mv)
    \/ \E o \in DrawsOf(PayoutDraws, FALSE, FALSE, FALSE, TRUE) :
          phase = "home" /\ StartMatch(o)
    \/ startRewardedFlow
    \/ AdStart
    \/ \E u \in BonusRolls, left \in {0, AD_DURATION_SECONDS} : AdTick(u, left)
    \/ failRewarded
    \/ \E t \in Instants : phase = "game_over" /\ ClockReads(t)

SpecBreak == BreakInit /\ [][BreakNext]_vars

\* A step of the ad flow: the ad overlay or one of its timers changes.
AdFlowStep ==
    <<adState, adCountdown, adStartTimeout, adInterval>>'
        # <<adState, adCountdown, adStartTimeout, adInterval>>

\* One of the four fields of the rewarded bonus grows.
BonusGrows ==
    \/ profile'.credits > profile.credits
    \/ profile'.crystals > profile.crystals
    \/ profile'.rewardedClaimsToday > profile.rewardedClaimsToday
    \/ profile'.rewardedLifetimeClaims > profile.rewardedLifetimeClaims

\* The step grants one tier: every field of the bonus grows, the claims by one.
BonusGranted ==
    /\ \E i \in 1..Len(REWARDED_TIERS) :
          /\ profile'.credits = profile.credits + REWARDED_TIERS[i].credits
          /\ profile'.crystals = profile.crystals + REWARDED_TIERS[i].crystals
    /\ profile'.rewardedClaimsToday
          = refreshDailyCounters(profile, now).rewardedClaimsToday + 1
    /\ profile'.rewardedLifetimeClaims = profile.rewardedLifetimeClaims + 1
    /\ profile'.rewardedLastClaimAt = now

\* The last tick of a shown ad: its countdown has run from AD_DURATION_SECONDS
\* down to 1 and the step takes it away.
FullCompletion ==
    /\ adState = "showing" /\ adInterval /\ adCountdown = 1
    /\ adState' = "idle"

\* The shown ad goes away before its countdown has run down: failRewarded.
ClosedEarly == adState = "showing" /\ adState' # "showing" /\ adCountdown > 1

\* The shown ad goes away at a moment at which the profile is not eligible.
EndsIneligible ==
    /\ adState = "showing" /\ adState' # "showing"
    /\ ~rewardedStatus(profile, now).eligible

\* The three fields of the bonus that no daily refresh touches stay.
BonusKept ==
    /\ profile'.credits = profile.credits
    /\ profile'.crystals = profile.crystals
    /\ profile'.rewardedLifetimeClaims = profile.rewardedLifetimeClaims

\* The ad overlay is away and no timer of it is left.
AdAway == adState' = "idle" /\ ~adInterval' /\ ~adStartTimeout'

\* The countdown of a shown ad is within 1..AD_DURATION_SECONDS, and it goes
\* down by one second per step until the ad goes away.
CountdownRuns ==
    /\ adState = "showing" => adCountdown \in 1..AD_DURATION_SECONDS /\ adInterval
    /\ adState = "loading" => adCountdown = AD_DURATION_SECONDS /\ adStartTimeout
    /\ adState = "idle" => ~adInterval /\ ~adStartTimeout

\* A step of the ad flow that leaves the ad shown takes one second off its
\* countdown, and the ad is first shown with its whole countdown.
CountdownStep ==
    AdFlowStep =>
        /\ adState = "showing" /\ adState' = "showing" => adCountdown' = adCountdown - 1
        /\ adState # "showing" /\ adState' = "showing" => adCountdown' = AD_DURATION_SECONDS

\* C20 as stated: through the ad flow, credits, crystals, rewardedClaimsToday
\* and rewardedLifetimeClaims grow only in the step that ends a shown ad whose
\* countdown has run from 6 down; closing the ad, or a completion that finds
\* the profile ineligible, leaves all four unchanged and the ad state idle.
C20_BonusOnFullCompletion ==
    /\ []CountdownRuns
    /\ [][/\ CountdownStep
          /\ AdFlowStep /\ BonusGrows => FullCompletion
          /\ ClosedEarly \/ EndsIneligible =>
                /\ BonusKept
                /\ profile'.rewardedClaimsToday = profile.rewardedClaimsToday
                /\ AdAway]_vars

\* C20, amended: through the ad flow the four fields grow only in the step
\* that ends a shown ad whose countdown has run from 6 down, and then by one
\* tier and one claim; closing the ad leaves all four unchanged; a completion
\* that finds the profile ineligible leaves credits, crystals and
\* rewardedLifetimeClaims unchanged and rewardedClaimsToday unchanged on the
\* profile's rewardedDay, but sets it to 0 when the wall clock reads another
\* day; each of them leaves the ad state idle.
C20_BonusOnFullCompletionDaily ==
    /\ []CountdownRuns
    /\ [][/\ CountdownStep
          /\ AdFlowStep /\ BonusGrows => FullCompletion /\ BonusGranted
          /\ ClosedEarly => profile' = profile /\ AdAway
          /\ EndsIneligible =>
                /\ BonusKept
                /\ profile'.rewardedClaimsToday \in
                      {profile.rewardedClaimsToday,
                       refreshDailyCounters(profile, now).rewardedClaimsToday}
                /\ profile.rewardedDay = localDayKey(now)
                      => profile'.rewardedClaimsToday = profile.rewardedClaimsToday
                /\ AdAway]_vars

\* A bonus was granted on the day of the round, and a later ad ended on a
\* clock set back to the day before: the claims of the day are 0 again.
C20_Witness ==
    /\ adState = "idle"
    /\ profile.rewardedLifetimeClaims >= 1
    /\ profile.rewardedClaimsToday = 0
    /\ profile.rewardedDay = localDayKey(StartOfPlay - DayMs)
    /\ profile.rewardedLastClaimAt > now
    /\ profile.credits >= roundSummary.rewardCredits + REWARDED_TIERS[1].credits

-----------------------------------------------------------------------------
(* Daily cap and cooldown of the rewarded bonus (rewarded break) *)

\* The claims left at the wall clock's reading.
ClaimsLeftNow == rewardedStatus(profile, now).claimsLeftToday

\* A step that starts a rewarded flow.
FlowStarts == adState = "idle" /\ adState' = "loading"

\* C21: rewardedClaimsToday stays within 0..8; no rewarded flow starts when no
\* claim is left today; a step of the ad flow that finds no claim left leaves
\* the profile as it was; and the counter starts again from 0 only in a step
\* that changes rewardedDay to the day the wall clock reads (a bonus granted
\* in that step counts as the first of the day), else it stays or grows by one.
C21_DailyCap ==
    /\ [](profile.rewardedClaimsToday \in 0..REWARDED_DAILY_CAP)
    /\ [][/\ FlowStarts => ClaimsLeftNow > 0
          /\ AdFlowStep /\ ClaimsLeftNow = 0 => profile' = profile
          /\ profile'.rewardedDay = profile.rewardedDay =>
                profile'.rewardedClaimsToday \in
                    {profile.rewardedClaimsToday, profile.rewardedClaimsToday + 1}
          /\ profile'.rewardedDay # profile.rewardedDay =>
                /\ profile'.rewardedDay = localDayKey(now)
                /\ profile'.rewardedClaimsToday = IF BonusGrows THEN 1 ELSE 0]_vars

\* An ad started on the next day is in its last second after the clock was set
\* back to the day of the eight claims: the completion finds no claim left.
C21_Witness ==
    /\ adState = "showing" /\ adCountdown = 1
    /\ profile.rewardedClaimsToday = REWARDED_DAILY_CAP
    /\ profile.rewardedDay = localDayKey(now)
    /\ rewardedStatus(profile, now).reason = "daily_cap"

\* The instants rewardedStatus is looked at for a profile: the clock's, and
\* those around the cooldown and the clock guard of its last claim.
StatusInstants(current) ==
    Instants \cup {current.rewardedLastClaimAt + d :
                      d \in {-30001, -30000, -1, 0, 1, 149001, 149999, 150000, 150001}}

\* What rewardedStatus reports for the profile `current` at the instant t.
StatusRule(current, t) ==
    LET status == rewardedStatus(current, t)
        claims == IF current.rewardedDay = localDayKey(t)
                  THEN current.rewardedClaimsToday ELSE 0
        left == claims < REWARDED_DAILY_CAP
        ahead == current.rewardedLastClaimAt > t + 30000
        cooled == t - current.rewardedLastClaimAt >= REWARDED_COOLDOWN_SECONDS * 1000
    IN  /\ status.eligible <=> left /\ ~ahead /\ cooled
        /\ status.reason = IF ~left THEN "daily_cap"
                           ELSE IF ahead THEN "clock_guard"
                           ELSE IF ~cooled THEN "cooldown"
                           ELSE "none"

\* C22: a step of the ad flow that grants a bonus after an earlier one is at
\* least 150 s after it on the wall clock; rewardedStatus reports eligible
\* exactly when claims are left, the last claim is not more than 30 s ahead of
\* the clock and 150 s have passed since it, and its reason is daily_cap
\* before clock_guard before cooldown.
C22_Cooldown ==
    /\ [](\A t \in StatusInstants(profile) : t >= 0 => StatusRule(profile, t))
    /\ [][AdFlowStep /\ BonusGrows /\ profile.rewardedLifetimeClaims >= 1 =>
             /\ now - profile.rewardedLastClaimAt >= REWARDED_COOLDOWN_SECONDS * 1000
             /\ profile'.rewardedLastClaimAt = now]_vars

\* Two bonuses were granted on the day of the round, the second one 150 s
\* after the first.
C22_Witness ==
    /\ profile.rewardedLifetimeClaims = 2
    /\ profile.rewardedClaimsToday = 2
    /\ profile.rewardedDay = localDayKey(StartOfPlay)
    /\ profile.rewardedLastClaimAt = StartOfPlay + REWARDED_COOLDOWN_SECONDS * 1000
    /\ now = profile.rewardedLastClaimAt

-----------------------------------------------------------------------------
(* The encore: short rounds one after the other, with rewarded ads started  *)
(* on the game-over overlay and the next round started, by the Space key,   *)
(* at any moment after a round has ended.  The wall clock stands.           *)

\* The rounds of the encore.
EncoreRounds == 2

EncoreInit == InitWith({DefaultProfile})

EncoreNext ==
    \/ \E o \in FrameDraws(PayoutDraws, round, MaxDelta), mv \in BreakMoves(round) :
          simulating /\ Frame(MaxDelta, o, mv)
    \/ \E o \in DrawsOf(PayoutDraws, FALSE, FALSE, FALSE, TRUE) :
          phase = "home" /\ StartMatch(o)
    \/ \E o \in DrawsOf(PayoutDraws, FALSE, FALSE, FALSE, TRUE) :
          phase = "game_over" /\ profile.totalMatches < EncoreRounds /\ StartMatch(o)
    \/ startRewardedFlow
    \/ AdStart
    \/ \E u \in BonusRolls, left \in {0, AD_DURATION_SECONDS} : AdTick(u, left)
    \/ failRewarded

SpecEncore == EncoreInit /\ [][EncoreNext]_vars

\* C23: whenever the ad state is loading or showing the phase is game_over,
\* and a step of the ad flow that grants a bonus is taken in the phase
\* game_over, for any interleaving of the ad timers with startMatch.
C23_AdOnlyOnGameOver ==
    /\ [](adState # "idle" => phase = "game_over")
    /\ [][AdFlowStep /\ BonusGrows => phase = "game_over"]_vars

-----------------------------------------------------------------------------
(* The dash direction (skirmish) *)

\* A step of the round within a dash that was triggered before it: the dash
\* is still active after the step.
WithinDash ==
    /\ phase = "playing" /\ phase' = "playing"
    /\ round.elapsed < round.dashingUntil
    /\ round'.dashingUntil = round.dashingUntil
    /\ round'.elapsed < round.dashingUntil

\* C24: while a dash is active the direction fixed when it was triggered
\* stays: no step within the dash, whatever the input, changes dashDirX or
\* dashDirY, the direction the player moves along.
C24_DashDirectionLocked ==
    [][WithinDash => /\ round'.dashDirX = round.dashDirX
                     /\ round'.dashDirY = round.dashDirY]_vars

-----------------------------------------------------------------------------
(* The bounty: one long round in which no enemy reaches the player.  Every  *)
(* volley flies to the nearest enemy, but while the contract lacks one kill *)
(* the volleys fly out of the arena, an enemy comes near and the blade      *)
(* storm makes the last kill early, on the deadline, or never.              *)

BountyFrames == 1000

\* A contract is offered in the frame with delta dt.
OfferDue(r, dt) == r.contractTarget <= 0 /\ r.elapsed + dt >= r.nextContractAt

\* The contract lacks one kill.
OneShort(r) == r.contractTarget > 0 /\ r.contractProgress = r.contractTarget - 1

\* How long before the deadline the player may make the last kill, ms.
LastKillLeads == {7000, MaxDelta, 0}

BountyDraws(r, dt) ==
    [side |-> {0}, roll |-> {50}, radU |-> {500},
     conTargetU |-> {0},
     conDurU |-> IF OfferDue(r, dt) THEN {0, 999} ELSE {0},
     conNextU |-> IF OfferDue(r, dt) THEN {0, 999} ELSE {0},
     xpU |-> {999}, drop |-> {900},
     choices |-> {{"rapid_fire", "power_shot", "magnet"}},
     resetEliteU |-> {0}, resetConU |-> {0}]

BountyMoves(r) ==
    IF PlayerCell \in CellsOf(r.projectiles)
    THEN IF r.enemies = <<>> \/ OneShort(r)
         THEN {GroupMove("p", PlayerCell, OutOfBounds)}
         ELSE {GroupMove("p", PlayerCell, r.enemies[findNearestEnemy(r)].pos)}
    ELSE IF OneShort(r) /\ r.enemies # <<>> /\ NearCell \notin CellsOf(r.enemies)
    THEN {SingleMove("e", Len(r.enemies), NearCell)}
    ELSE {NoMove}

\* The moment of the last kill: an enemy is near and the deadline is at one of
\* the leads.
LastKillCue(r) ==
    /\ OneShort(r)
    /\ NearCell \in CellsOf(r.enemies)
    /\ \E lead \in LastKillLeads :
          r.elapsed <= r.contractExpireAt - lead
              /\ r.elapsed + MaxDelta > r.contractExpireAt - lead

BountyInit == InitWith({DefaultProfile})

BountyNext ==
    \/ \E o \in FrameDraws(BountyDraws(round, MaxDelta), round, MaxDelta), mv \in BountyMoves(round) :
          /\ SessionTime < BountyFrames * MaxDelta
          /\ Frame(MaxDelta, o, mv)
    \/ \E o \in DrawsOf(BountyDraws(round, 0), FALSE, FALSE, FALSE, TRUE) :
          phase = "home" /\ StartMatch(o)
    \/ \E o \in DrawsOf(BountyDraws(round, 0), FALSE, TRUE, FALSE, FALSE) :
          LastKillCue(round) /\ TriggerHeroPower(o)

SpecBounty == BountyInit /\ [][BountyNext]_vars

\* The progress of the active contract has reached its target, and the
\* deadline has not passed.
TargetReached ==
    /\ phase = "playing"
    /\ round.contractTarget > 0
    /\ round.contractProgress >= round.contractTarget
    /\ round.elapsed <= round.contractExpireAt

\* A simulated frame of the round that does not end it.
RoundFrame == phase = "playing" /\ phase' = "playing" /\ round'.elapsed > round.elapsed

\* The frame has paid the reward of the contract.
ContractPaid ==
    /\ round'.score >= round.score + (180 + 32 * round.level) * ScoreUnit
    /\ round'.powerCharge >= Min(POWER_FULL * PowerUnit, round.powerCharge + 28 * PowerUnit)
    /\ round'.invulnerableUntil = round.invulnerableUntil
          => round'.build.shield = Min(round.build.maxShield, round.build.shield + 1)

\* C25: a contract whose progress has reached its target with the deadline
\* not passed is closed as completed by the next frame, which pays the score
\* bonus 180 + 32 * level, one shield up to maxShield and 28 power charge up
\* to 100; it is not closed as failed.
C25_ContractCompleted ==
    [][TargetReached /\ RoundFrame => ContractPaid]_vars

-----------------------------------------------------------------------------
(* The power charge (siege) *)

\* A frame of the round without a kill and without a contract closed.
QuietFrame ==
    /\ RoundFrame
    /\ round'.kills = round.kills
    /\ round'.contractTarget = round.contractTarget \/ round.contractTarget = 0

\* C26: the power charge is within 0..100 in every state; a frame without a
\* kill or contract reward charges 3.6 * powerGainScale per second up to 100;
\* and the charge goes down only to 0, by a hero-power cast at full charge or
\* by a new round.
C26_PowerChargeRange ==
    /\ [](round.powerCharge \in 0..POWER_FULL * PowerUnit)
    /\ [][/\ QuietFrame =>
                round'.powerCharge =
                    Min(POWER_FULL * PowerUnit,
                        round.powerCharge
                            + ((round'.elapsed - round.elapsed) * 36 * round.powerGainScale) \div 100)
          /\ round'.powerCharge < round.powerCharge =>
                /\ round'.powerCharge = 0
                /\ \/ Cast /\ round.powerCharge = POWER_FULL * PowerUnit
                   \/ FreshRound(round')]_vars

\* The charge is full in a round with a kill, while a contract is active.
C26_Witness ==
    /\ phase = "playing"
    /\ round.powerCharge = POWER_FULL * PowerUnit
    /\ round.kills >= 1
    /\ round.contractTarget > 0

-----------------------------------------------------------------------------
(* The enemies of the live list (bounty) *)

\* What holds of an enemy of the list.
EnemyShape(enemy) ==
    /\ 0 < enemy.hp /\ enemy.hp <= enemy.maxHp
    /\ enemy.radius > 0
    /\ enemy.baseSpeed > 0
    /\ enemy.elite => enemy.type = "brute" /\ enemy.maxHp = 12

\* The times, rolls and draws createEnemy is looked at for.
SpawnTimes == {0, 20000, 20050, 50000, 50050, 65000, 65050, 120000}
SpawnRolls == {0, 6, 7, 19, 20, 47, 48, 99}

\* C27: every enemy createEnemy makes, and every enemy of the live list after
\* every frame and every hero-power cast, has 0 < hp <= maxHp, radius > 0 and
\* baseSpeed > 0, and is a brute with maxHp 12 when it is elite.
C27_EnemyShape ==
    /\ \A elapsed \in SpawnTimes, forcedElite \in BOOLEAN, side \in {0, 3},
          roll \in SpawnRolls, radU \in {0, 999}, speedU \in {0, 999} :
          EnemyShape(createEnemy(elapsed, forcedElite, side, roll, radU, speedU))
    /\ \A i \in 1..Len(round.enemies) : EnemyShape(round.enemies[i])

\* After a blade storm that made a kill, the list holds an elite enemy and an
\* enemy that a volley has hit.
C27_Witness ==
    /\ phase = "playing"
    /\ round.frenzyUntil > 0
    /\ round.kills >= 8
    /\ \E i \in 1..Len(round.enemies) : round.enemies[i].elite
    /\ \E i \in 1..Len(round.enemies) : round.enemies[i].hp < round.enemies[i].maxHp

-----------------------------------------------------------------------------
(* The workshop: a round in which every volley flies to the nearest enemy   *)
(* and every orb is collected, while the player, with savings in the        *)
(* profile, buys meta-upgrades, takes the upgrades of the level-ups, dashes *)
(* after the first kill and casts the hero power after a kill.              *)

WorkshopFrames == 200

WorkshopMoves(r) ==
    IF PlayerCell \in CellsOf(r.projectiles)
    THEN IF r.enemies = <<>> THEN {GroupMove("p", PlayerCell, OutOfBounds)}
         ELSE {GroupMove("p", PlayerCell, r.enemies[findNearestEnemy(r)].pos)}
    ELSE IF FreshOrb(r)
    THEN {GroupMove("o", r.orbs[Len(r.orbs)].pos, PlayerCell)}
    ELSE {NoMove}

\* The moment of a purchase: the round has just started, or a kill was just made.
ShopCue == phase = "playing" /\ (round.elapsed = 0 \/ FreshOrb(round))

WorkshopInit == InitWith({StockedProfile})

WorkshopNext ==
    \/ \E o \in FrameDraws(CampaignDraws, round, MaxDelta), mv \in WorkshopMoves(round) :
          /\ SessionTime < WorkshopFrames * MaxDelta
          /\ Frame(MaxDelta, o, mv)
    \/ \E o \in DrawsOf(CampaignDraws, FALSE, FALSE, FALSE, TRUE) :
          phase = "home" /\ StartMatch(o)
    \/ \E id \in UpgradeIds : ChooseUpgrade(id)
    \/ \E id \in MetaUpgradeIds : ShopCue /\ purchaseMetaUpgrade(id)
    \/ phase = "playing" /\ round.kills = 1 /\ FreshOrb(round) /\ TriggerDash
    \/ \E o \in DrawsOf(CampaignDraws, FALSE, TRUE, FALSE, FALSE) :
          phase = "playing" /\ Charged(round) /\ FreshOrb(round) /\ TriggerHeroPower(o)

SpecWorkshop == WorkshopInit /\ [][WorkshopNext]_vars

\* The build without its shield.
BuildStats(r) ==
    <<r.build.moveSpeed, r.build.fireInterval, r.build.shotDamage, r.build.multiShot,
      r.build.dashCooldown, r.build.pickupRadius, r.build.maxShield>>

\* C28: within a round, moveSpeed, fireInterval, shotDamage, multiShot,
\* dashCooldown, pickupRadius and maxShield change only in the step that takes
\* an upgrade of a level-up: frames, the dash, the hero power and a
\* meta-upgrade bought in the profile leave them as they are.
C28_BuildChangesByUpgrade ==
    [][phase = "playing" /\ phase' = "playing" /\ BuildStats(round') # BuildStats(round)
          => Chosen]_vars

\* A meta-upgrade was bought while the round runs with an upgrade taken, a
\* dash made and the hero power cast: the build is not the base build of the
\* profile's levels.
C28_Witness ==
    /\ phase = "playing"
    /\ profile.metaUpgrades # DEFAULT_META_UPGRADES
    /\ round.upgrades # {}
    /\ round.dashReadyAt > 0
    /\ round.frenzyUntil > 0
    /\ round.build.maxShield
          # createBaseBuild(round.heroId, profile.metaUpgrades).maxShield

-----------------------------------------------------------------------------
(* The failure of a contract, in the bounty. *)

\* The frame with delta dt passes the deadline of the active contract.
FailureDue(r, dt) == r.contractTarget > 0 /\ r.elapsed + dt > r.contractExpireAt

\* The round with no contract to fail.
Forgotten(r) == [r EXCEPT !.contractTarget = 0, !.contractProgress = 0]

\* The round with the deadline at the end of the frame with delta dt.
Postponed(r, dt) == [r EXCEPT !.contractExpireAt = r.elapsed + dt]

\* What a failure is said to leave alone.
Standing(r) ==
    <<r.score, r.build.shield, r.powerCharge, r.combo, r.comboExpireAt, r.nextContractAt>>

FailedFrame(o, mv) == simulate(round, MaxDelta, o, mv, input)

\* C29: a frame that passes the deadline of the active contract leaves
\* contractTarget = 0 and contractProgress = 0, and is in everything else the
\* frame of a round that had no contract; when the target was not reached, its
\* score, shield, power charge, combo and next-offer time are those of the
\* same frame with the deadline not yet passed.
C29_FailureOnlyResets ==
    phase = "playing" /\ FailureDue(round, MaxDelta) =>
        \A o \in FrameDraws(BountyDraws(round, MaxDelta), round, MaxDelta),
           mv \in BountyMoves(round) :
            /\ FailedFrame(o, mv).r.contractTarget = 0
            /\ FailedFrame(o, mv).r.contractProgress = 0
            /\ FailedFrame(o, mv) = simulate(Forgotten(round), MaxDelta, o, mv, input)
            /\ round.contractProgress < round.contractTarget =>
                  Standing(FailedFrame(o, mv).r)
                      = Standing(simulate(Postponed(round, MaxDelta), MaxDelta, o, mv, input).r)

\* The frame after a deadline that the contract, one kill short, has missed:
\* the hero power was never cast.
C29_Witness ==
    /\ phase = "playing"
    /\ round.contractTarget = 0
    /\ round.contractExpireAt > 0
    /\ round.elapsed > round.contractExpireAt
    /\ round.elapsed <= round.contractExpireAt + MaxDelta
    /\ round.frenzyUntil = 0
    /\ round.kills >= 7

-----------------------------------------------------------------------------
(* The bookkeeping of the contracts, in the bounty. *)

\* The step goes on with the round it found.
SameRound == phase = "playing" /\ round'.elapsed >= round.elapsed

\* The step offers a contract.
Offered == SameRound /\ round.contractTarget = 0 /\ round'.contractTarget > 0

\* C30: with no active contract contractProgress is 0; an active contract has
\* contractExpireAt < nextContractAt; a contract is offered only with none
\* active, at or after nextContractAt and after the deadline of the one
\* before, and an active contract is not replaced; the progress grows only by
\* the kills made while the contract is active.
C30_ContractBookkeeping ==
    /\ [](/\ round.contractTarget >= 0
          /\ round.contractTarget = 0 => round.contractProgress = 0
          /\ round.contractTarget > 0 => round.contractExpireAt < round.nextContractAt)
    /\ [][/\ Offered =>
                /\ round'.elapsed >= round.nextContractAt
                /\ round'.elapsed > round.contractExpireAt
                /\ round'.contractProgress <= round'.kills - round.kills
          /\ SameRound /\ round.contractTarget > 0 /\ round'.contractTarget > 0 =>
                /\ round'.contractTarget = round.contractTarget
                /\ round'.contractExpireAt = round.contractExpireAt
                /\ round'.nextContractAt = round.nextContractAt
                /\ round'.contractProgress >= round.contractProgress
                /\ round'.contractProgress - round.contractProgress
                      <= round'.kills - round.kills
          /\ SameRound /\ round'.contractTarget = 0 =>
                round'.nextContractAt = round.nextContractAt]_vars

\* The second contract of the round has been offered: of the kills made before
\* the first offer, under the first contract and after its end, none is counted.
C30_Witness ==
    /\ phase = "playing"
    /\ round.contractTarget > 0
    /\ round.contractProgress = 0
    /\ round.contractExpireAt > 60000
    /\ round.kills > 2 * round.contractTarget

-----------------------------------------------------------------------------
(* The last stand: the volleys fly to the edge where the enemies enter and  *)
(* the orbs of the kills stay there.  After LastStandKills kills an enemy   *)
(* reaches the player and takes the shield; a second one comes while the    *)
(* player is invulnerable and ends the round; the orbs are carried to the   *)
(* player in one of the frames of the stand.                                *)

LastStandFrames == 200

LastStandKills == 6

LastStandRounds == 2

LastStandDraws ==
    [side |-> {0}, roll |-> {50}, radU |-> {500},
     conTargetU |-> {0}, conDurU |-> {0}, conNextU |-> {0},
     xpU |-> {999}, drop |-> {900},
     choices |-> {{"rapid_fire", "power_shot", "magnet"}},
     resetEliteU |-> {0}, resetConU |-> {0}]

\* An enemy is on the player.
Cornered(r) == PlayerCell \in CellsOf(r.enemies)

LastStandMoves(r) ==
    IF PlayerCell \in CellsOf(r.projectiles)
    THEN {GroupMove("p", PlayerCell,
                    IF EdgeCell(0) \in CellsOf(r.enemies) THEN EdgeCell(0) ELSE OutOfBounds)}
    ELSE IF r.enemies # <<>> /\ ~Cornered(r) /\ r.kills >= LastStandKills /\ r.build.shield > 0
    THEN {SingleMove("e", Len(r.enemies), PlayerCell)}
    ELSE {NoMove}
         \cup (IF r.build.shield = 0 /\ invulnerable(r) /\ r.enemies # <<>> /\ ~Cornered(r)
               THEN {SingleMove("e", Len(r.enemies), PlayerCell)} ELSE {})
         \cup (IF r.build.shield = 0 /\ EdgeCell(0) \in CellsOf(r.orbs)
               THEN {GroupMove("o", EdgeCell(0), PlayerCell)} ELSE {})

LastStandInit == InitWith({DefaultProfile})

LastStandNext ==
    \/ \E o \in FrameDraws(LastStandDraws, round, MaxDelta), mv \in LastStandMoves(round) :
          /\ SessionTime < LastStandFrames * MaxDelta
          /\ Frame(MaxDelta, o, mv)
    \/ \E o \in DrawsOf(LastStandDraws, FALSE, FALSE, FALSE, TRUE) :
          profile.totalMatches < LastStandRounds /\ StartMatch(o)
    \/ \E id \in UpgradeIds : ChooseUpgrade(id)
    \/ (Cornered(round) \/ upgradeOpen) /\ TogglePause
    \/ Resume

SpecLastStand == LastStandInit /\ [][LastStandNext]_vars

-----------------------------------------------------------------------------
(* The upgrade choice and the pause. *)

\* C31: an upgrade choice is pending only while the phase is "playing", also
\* after the frame in which the fatal collision and a level-up happen together.
C31_ChoiceOnlyWhilePlaying == upgradeOpen => phase = "playing"

\* C32: a pause belongs to a round and excludes the upgrade choice: isPaused
\* implies phase = "playing", isPaused and upgradeOpen are never both true, no
\* step sets the pause while a choice is pending, and no step taken while
\* paused changes the round or opens a choice.
C32_PauseExcludesChoice ==
    /\ [](/\ isPaused => phase = "playing"
          /\ ~(isPaused /\ upgradeOpen))
    /\ [][/\ upgradeOpen => ~isPaused'
          /\ isPaused => round' = round /\ upgradeOpen' = upgradeOpen]_vars

\* The round is paused with an enemy on the player, after a level-up whose
\* upgrade was chosen.
C32_Witness ==
    /\ isPaused
    /\ phase = "playing"
    /\ round.level > 1
    /\ round.upgrades # {}
    /\ Cornered(round)

-----------------------------------------------------------------------------
(* The census: after CensusKills kills the volleys leave the arena.  One    *)
(* enemy walks into the shield, the hero power is cast at one of two moments, *)
(* and the enemies gather until the population cap evicts the oldest.       *)

CensusFrames == 1215

CensusKills == 2

\* The moments at which the player may cast the hero power, ms.
CastTimes == {30000, 45000}

CensusDraws ==
    [side |-> {0}, roll |-> {50}, radU |-> {500},
     conTargetU |-> {0}, conDurU |-> {0}, conNextU |-> {0},
     xpU |-> {999}, drop |-> {900},
     choices |-> {{"rapid_fire", "power_shot", "magnet"}},
     resetEliteU |-> {0}, resetConU |-> {0}]

CensusMoves(r) ==
    IF r.elapsed + MaxDelta \in CastTimes /\ r.enemies # <<>>
    THEN {SingleMove("e", Len(r.enemies), NearCell)}
    ELSE IF PlayerCell \in CellsOf(r.projectiles)
    THEN {GroupMove("p", PlayerCell,
                    IF r.kills < CensusKills /\ r.enemies # <<>>
                    THEN r.enemies[findNearestEnemy(r)].pos ELSE OutOfBounds)}
    ELSE IF r.kills >= CensusKills /\ r.build.shield > 0 /\ r.enemies # <<>> /\ ~Cornered(r)
    THEN {SingleMove("e", Len(r.enemies), PlayerCell)}
    ELSE {NoMove}

CensusInit == InitWith({DefaultProfile})

CensusNext ==
    \/ \E o \in FrameDraws(CensusDraws, round, MaxDelta), mv \in CensusMoves(round) :
          /\ SessionTime < CensusFrames * MaxDelta
          /\ Frame(MaxDelta, o, mv)
    \/ \E o \in DrawsOf(CensusDraws, FALSE, FALSE, FALSE, TRUE) :
          phase = "home" /\ StartMatch(o)
    \/ \E h \in {"arc"} : SelectHero(h)
    \/ \E o \in DrawsOf(CensusDraws, FALSE, TRUE, FALSE, FALSE) :
          /\ Charged(round) /\ round.elapsed \in CastTimes
          /\ TriggerHeroPower(o)

SpecCensus == CensusInit /\ [][CensusNext]_vars

\* The enemies the step has spawned, and those of the list it has removed.
Spawned == round'.spawnedEnemies - round.spawnedEnemies
Removed == Len(round.enemies) + Spawned - Len(round'.enemies)

\* The step has counted kills.
Killed == round'.kills - round.kills

\* A shield has absorbed a hit in the step.
Absorbed ==
    IF round'.invulnerableUntil = round'.elapsed + HIT_INVULNERABLE
          /\ round'.invulnerableUntil # round.invulnerableUntil
          /\ round'.build.shield < round.build.shield
    THEN 1 ELSE 0

\* The enemies the population cap has evicted in the step, in which the
\* regular spawn resets the spawn clock.
Evicted ==
    IF round'.spawnClock < round.spawnClock
    THEN Max(0, Len(round.enemies) + Spawned - ENEMY_CAP)
    ELSE 0

\* C33: kills + live enemies <= spawnedEnemies; within a round kills and
\* spawnedEnemies never decrease; the enemies a step removes are those it
\* counts as kills, one kill and one orb each, the one a shield absorbs and
\* those the population cap evicts; a step without a kill, a pickup of orbs
\* or a contract reward adds the score of the passing time only.
C33_CounterConservation ==
    /\ [](round.kills + Len(round.enemies) <= round.spawnedEnemies)
    /\ [][SameRound =>
            /\ Killed >= 0
            /\ Spawned >= 0
            /\ Removed = Killed + Absorbed + Evicted
            /\ Len(round'.orbs) <= Len(round.orbs) + Killed
            /\ round'.elapsed = round.elapsed
                  => Len(round'.orbs) = Len(round.orbs) + Killed
            /\ (/\ Killed = 0
                /\ round'.xp = round.xp /\ round'.level = round.level
                /\ round.contractTarget = 0 \/ round'.contractTarget > 0)
                  => round'.score
                        = advanceClock(round, round'.elapsed - round.elapsed).score]_vars

\* The population cap has evicted enemies in a round with kills of volleys
\* and of the hero power and with a hit absorbed by the shield.
C33_Witness ==
    /\ phase = "playing"
    /\ Len(round.enemies) >= ENEMY_CAP
    /\ round.kills > CensusKills
    /\ round.build.shield < round.build.maxShield
    /\ round.spawnedEnemies > round.kills + Len(round.enemies) + 1

-----------------------------------------------------------------------------
(* The scrum: no volley hits.  At ScrumAt the enemies gathered at the edge  *)
(* fall on the player together; the player, with three shields, may dash    *)
(* and may cast the hero power while they are on the player.                *)

ScrumFrames == 660

ScrumAt == 27000

ScrumDraws ==
    [side |-> {0}, roll |-> {50}, radU |-> {500},
     conTargetU |-> {0}, conDurU |-> {0}, conNextU |-> {0},
     xpU |-> {999}, drop |-> {900},
     choices |-> {{"rapid_fire", "power_shot", "magnet"}},
     resetEliteU |-> {0}, resetConU |-> {0}]

ScrumMoves(r) ==
    IF r.elapsed + MaxDelta = ScrumAt
    THEN {GroupMove("e", EdgeCell(0), PlayerCell)}
    ELSE IF PlayerCell \in CellsOf(r.projectiles)
    THEN {GroupMove("p", PlayerCell, OutOfBounds)}
    ELSE {NoMove}

ScrumInit == InitWith({VeteranProfile})

ScrumNext ==
    \/ \E o \in FrameDraws(ScrumDraws, round, MaxDelta), mv \in ScrumMoves(round) :
          /\ SessionTime < ScrumFrames * MaxDelta
          /\ Frame(MaxDelta, o, mv)
    \/ \E o \in DrawsOf(ScrumDraws, FALSE, FALSE, FALSE, TRUE) :
          phase = "home" /\ StartMatch(o)
    \/ phase = "playing" /\ Cornered(round) /\ TriggerDash
    \/ \E o \in DrawsOf(ScrumDraws, FALSE, TRUE, FALSE, FALSE) :
          phase = "playing" /\ Cornered(round) /\ Charged(round) /\ TriggerHeroPower(o)

SpecScrum == ScrumInit /\ [][ScrumNext]_vars

\* C34: a step takes at most one shield point, however many enemies are on
\* the player; it takes one only when elapsed is past invulnerableUntil, and
\* it then sets invulnerableUntil to elapsed + 1 s; invulnerableUntil never
\* decreases within a round, so that two losses are more than 1 s apart.
C34_OneShieldPerSecond ==
    [][SameRound =>
          /\ round'.build.shield >= round.build.shield - 1
          /\ round'.invulnerableUntil >= round.invulnerableUntil
          /\ round'.build.shield < round.build.shield =>
                /\ round'.elapsed > round.invulnerableUntil
                /\ round'.invulnerableUntil = round'.elapsed + HIT_INVULNERABLE]_vars

\* The second shield of the round has just been taken with two or more
\* enemies left on the player, after a dash.
C34_Witness ==
    /\ phase = "playing"
    /\ round.build.shield = round.build.maxShield - 2
    /\ round.invulnerableUntil = round.elapsed + HIT_INVULNERABLE
    /\ round.dashReadyAt > 0
    /\ Cardinality({i \in 1..Len(round.enemies) : round.enemies[i].pos = PlayerCell}) >= 2

\* C35: while the player is dashing (elapsed < dashingUntil) the player is
\* invulnerable (elapsed <= invulnerableUntil), for the dash of the command
\* and of the Viper power; a frame that ends within the dash takes no shield
\* and does not end the round; a dash command during the cooldown leaves the
\* round as it is.
C35_DashInvulnerable ==
    /\ [](round.elapsed < round.dashingUntil => round.elapsed <= round.invulnerableUntil)
    /\ [][/\ phase = "playing" /\ round.elapsed + MaxDelta < round.dashingUntil =>
                /\ phase' = "playing"
                /\ round'.build.shield >= round.build.shield
          /\ TriggerDash /\ round.elapsed * 1000 < round.dashReadyAt => round' = round]_vars

\* The player dashes, by the command, with enemies on the player, a shield
\* lost and the window of the lost shield closed.
C35_Witness ==
    /\ phase = "playing"
    /\ round.elapsed < round.dashingUntil
    /\ round.dashReadyAt = (round.dashingUntil - DASH_DURATION) * 1000 + round.build.dashCooldown
    /\ round.invulnerableUntil < round.elapsed + DASH_DURATION + MaxDelta
    /\ Cornered(round)
    /\ round.build.shield < round.build.maxShield

-----------------------------------------------------------------------------
(* The elite timer, in the horde. *)

\* The step reaches the time of the next elite.
EliteTimerFires == round'.elapsed >= round.nextEliteAt

\* The spawn clock, advanced by the step, reaches the spawn delay.
SpawnClockFires ==
    /\ round'.elapsed > round.elapsed
    /\ (round.spawnClock + round'.elapsed - round.elapsed) * 1000
          >= spawnDelay(round'.elapsed)

\* C36: an elite is force-spawned exactly in the steps in which elapsed
\* reaches nextEliteAt, which is then set 30 to 38 s later and is past elapsed
\* in every state; a step adds one enemy for the elite timer and one for the
\* spawn clock: at most 2, and 2 exactly when both fire.
C36_EliteScheduling ==
    /\ [](round.nextEliteAt > round.elapsed)
    /\ [][SameRound =>
            /\ round'.nextEliteAt # round.nextEliteAt <=> EliteTimerFires
            /\ EliteTimerFires =>
                  /\ round'.nextEliteAt - round.nextEliteAt >= 30000
                  /\ round'.nextEliteAt - round.nextEliteAt < 38000
                  /\ round'.enemies[Len(round'.enemies)
                                       - (IF SpawnClockFires THEN 1 ELSE 0)].elite
            /\ Spawned = (IF EliteTimerFires THEN 1 ELSE 0)
                            + (IF SpawnClockFires THEN 1 ELSE 0)
            /\ Spawned <= 2]_vars

\* The elite timer and the spawn clock have fired in the same frame: the
\* newest enemy is the regular one, the one before it the elite.
C36_Witness ==
    /\ phase = "playing"
    /\ round.spawnClock = 0
    /\ round.elapsed >= round.nextEliteAt - 30000
    /\ round.elapsed - MaxDelta < round.nextEliteAt - 30000
    /\ Len(round.enemies) >= 2
    /\ round.enemies[Len(round.enemies) - 1].elite
    /\ ~round.enemies[Len(round.enemies)].elite

-----------------------------------------------------------------------------
(* The decay of the combo, in the bounty. *)

\* C37: in every state a combo above 1 has its window open (elapsed <=
\* comboExpireAt, at most 2.7 s after the last kill) and bestCombo >= combo;
\* a step without a kill that passes comboExpireAt leaves combo = 1, and
\* bestCombo never decreases within a round.
C37_ComboDecay ==
    /\ [](/\ round.combo > 1 => round.elapsed <= round.comboExpireAt
          /\ round.comboExpireAt <= round.elapsed + COMBO_WINDOW
          /\ round.bestCombo >= round.combo)
    /\ [][SameRound =>
            /\ round'.bestCombo >= round.bestCombo
            /\ Killed = 0 /\ round'.elapsed > round.comboExpireAt => round'.combo = 1
            /\ Killed = 0 => round'.comboExpireAt = round.comboExpireAt]_vars

\* The combo of the round has decayed: the window of the last kill is closed,
\* combo is 1 and bestCombo keeps the best of the round.
C37_Witness ==
    /\ phase = "playing"
    /\ round.combo = 1
    /\ round.bestCombo > 1
    /\ round.elapsed > round.comboExpireAt
    /\ round.elapsed <= round.comboExpireAt + MaxDelta

-----------------------------------------------------------------------------
(* The round end, in the last stand. *)

\* The step ends the round.
RoundEnds == phase = "playing" /\ phase' = "game_over"

\* The enemies that the frame after the current state spawns.
SpawnsAhead ==
    (IF round.elapsed + MaxDelta >= round.nextEliteAt THEN 1 ELSE 0)
       + (IF (round.spawnClock + MaxDelta) * 1000 >= spawnDelay(round.elapsed + MaxDelta)
          THEN 1 ELSE 0)

\* C38: the step of a fatal collision makes one round-end update and one
\* summary: totalMatches grows by 1, credits and crystals by
\* calculateMatchReward of the whole score, bestScore becomes the larger of
\* itself and the score, the summary has the counters of the moment of the
\* collision (the orbs collected and the level gained later in the step are
\* not in it), and the round left in place is a fresh one.
C38_OneRoundEnd ==
    [][/\ profile'.totalMatches # profile.totalMatches <=> RoundEnds
       /\ roundSummary' # roundSummary /\ roundSummary' # NoSummary <=> RoundEnds
       /\ RoundEnds =>
            LET rewards == calculateMatchReward(roundSummary'.score)
            IN  /\ profile'.totalMatches = profile.totalMatches + 1
                /\ profile'.credits = profile.credits + rewards.credits
                /\ profile'.crystals = profile.crystals + rewards.crystals
                /\ profile'.bestScore = Max(profile.bestScore, roundSummary'.score)
                /\ profile'.lastScore = roundSummary'.score
                /\ roundSummary'.rewardCredits = rewards.credits
                /\ roundSummary'.rewardCrystals = rewards.crystals
                /\ roundSummary'.isBestScore = (roundSummary'.score >= profile'.bestScore)
                /\ round.contractTarget = 0 /\ round.elapsed + MaxDelta < round.nextContractAt
                      => roundSummary'.score
                            = advanceClock(round, MaxDelta).score \div ScoreUnit
                /\ roundSummary'.survivalSeconds = (round.elapsed + MaxDelta) \div 1000
                /\ roundSummary'.kills = round.kills
                /\ roundSummary'.level = round.level
                /\ roundSummary'.bestCombo = round.bestCombo
                /\ roundSummary'.spawnedEnemies = round.spawnedEnemies + SpawnsAhead
                /\ FreshRound(round')
                /\ round'.heroId = round.heroId /\ round'.weaponId = round.weaponId
                /\ round'.xpToNext = XP_FIRST_LEVEL
                /\ round'.build = createBaseBuild(round.heroId, profile.metaUpgrades)]_vars

\* The round has ended in a frame that collected the orbs of a level-up after
\* the fatal collision: the summary has level 1 and the round in place is new.
C38_Witness ==
    /\ phase = "game_over"
    /\ upgradeOpen
    /\ roundSummary # NoSummary
    /\ roundSummary.level = 1
    /\ roundSummary.kills >= LastStandKills
    /\ profile.totalMatches = 1
    /\ profile.credits > 0
    /\ FreshRound(round)


-----------------------------------------------------------------------------
(* The bazaar: a returning player with savings shops on the home screen and *)
(* on the game-over overlay (weapon cards, meta-upgrade buttons, mission    *)
(* rows), plays short rounds, and watches one rewarded ad.                  *)

\* The rounds of the session.
BazaarRounds == 2

\* The weapons whose card can be shown as locked: pulse is in the
\* unlockedWeapons of every profile.
PricedWeapons == {w \in WeaponIds : getWeapon(w).unlockCredits > 0 \/ getWeapon(w).unlockCrystals > 0}

\* The player shops between rounds, while no ad is on.
AtTheStalls == phase # "playing" /\ adState = "idle"

BazaarInit == InitWith({PatronProfile})

BazaarNext ==
    \/ \E o \in FrameDraws(PayoutDraws, round, MaxDelta), mv \in BreakMoves(round) :
          simulating /\ Frame(MaxDelta, o, mv)
    \/ \E o \in DrawsOf(PayoutDraws, FALSE, FALSE, FALSE, TRUE) :
          /\ profile.totalMatches < PatronProfile.totalMatches + BazaarRounds
          /\ adState = "idle"
          /\ StartMatch(o)
    \/ \E w \in PricedWeapons : AtTheStalls /\ unlockWeapon(w)
    \/ \E w \in WeaponIds : AtTheStalls /\ SelectWeapon(w)
    \/ \E id \in MetaUpgradeIds : AtTheStalls /\ purchaseMetaUpgrade(id)
    \/ \E id \in MissionIds : AtTheStalls /\ claimDailyMission(id)
    \/ startRewardedFlow
    \/ AdStart
    \/ \E u \in BonusRolls : AdTick(u, AD_DURATION_SECONDS)

SpecBazaar == BazaarInit /\ [][BazaarNext]_vars

\* What the button of a meta-upgrade quotes at the level of the profile.
QuotedCost(id) == getMetaUpgradeCost(META_UPGRADES[id], profile.metaUpgrades[id])

\* The step unlocks the weapon w and takes exactly its price.
Unlocks(w) ==
    /\ w \notin profile.unlockedWeapons
    /\ profile'.unlockedWeapons = profile.unlockedWeapons \cup {w}
    /\ profile.credits >= getWeapon(w).unlockCredits
    /\ profile.crystals >= getWeapon(w).unlockCrystals
    /\ profile'.credits = profile.credits - getWeapon(w).unlockCredits
    /\ profile'.crystals = profile.crystals - getWeapon(w).unlockCrystals
    /\ profile'.metaUpgrades = profile.metaUpgrades

\* The step raises the meta-upgrade id by one level and takes exactly the quoted cost.
Upgrades(id) ==
    /\ profile.metaUpgrades[id] < META_UPGRADES[id].maxLevel
    /\ profile'.metaUpgrades = [profile.metaUpgrades EXCEPT ![id] = @ + 1]
    /\ profile.credits >= QuotedCost(id).credits
    /\ profile.crystals >= QuotedCost(id).crystals
    /\ profile'.credits = profile.credits - QuotedCost(id).credits
    /\ profile'.crystals = profile.crystals - QuotedCost(id).crystals
    /\ profile'.unlockedWeapons = profile.unlockedWeapons

\* C39: purchases fail closed.  unlockWeapon of a priced weapon that is
\* already unlocked or that the credits or the crystals of the profile do not
\* pay for, and purchaseMetaUpgrade at level 6 or without the credits or
\* crystals of the quoted cost, leave the profile as it was; every step that
\* unlocks a weapon or raises a meta-upgrade takes exactly the price, and no
\* other step lowers the credits or the crystals; so the credits and the
\* crystals are never negative and no meta-upgrade level passes 6, through
\* rounds, purchases, mission claims and rewarded bonuses.
C39_PurchasesFailClosed ==
    /\ [](/\ profile.credits >= 0
          /\ profile.crystals >= 0
          /\ \A id \in MetaUpgradeIds : profile.metaUpgrades[id] <= 6)
    /\ [][/\ \A w \in PricedWeapons :
                (/\ unlockWeapon(w)
                 /\ \/ w \in profile.unlockedWeapons
                    \/ profile.credits < getWeapon(w).unlockCredits
                    \/ profile.crystals < getWeapon(w).unlockCrystals)
                    => profile' = profile
          /\ \A id \in MetaUpgradeIds :
                (/\ purchaseMetaUpgrade(id)
                 /\ \/ profile.metaUpgrades[id] >= 6
                    \/ profile.credits < QuotedCost(id).credits
                    \/ profile.crystals < QuotedCost(id).crystals)
                    => profile' = profile
          /\ profile'.unlockedWeapons # profile.unlockedWeapons
                => \E w \in PricedWeapons : Unlocks(w)
          /\ profile'.metaUpgrades # profile.metaUpgrades
                => \E id \in MetaUpgradeIds : Upgrades(id)
          /\ (profile'.credits < profile.credits \/ profile'.crystals < profile.crystals)
                => \/ profile'.unlockedWeapons # profile.unlockedWeapons
                   \/ profile'.metaUpgrades # profile.metaUpgrades]_vars

\* After a round, a mission claim and a rewarded bonus: the reactor is at
\* level 6, the scatter weapon is unlocked, and what is left pays neither for
\* the lance weapon nor for a level of armor.
C39_Witness ==
    /\ profile.metaUpgrades.reactor = 6
    /\ "scatter" \in profile.unlockedWeapons
    /\ "lance" \notin profile.unlockedWeapons
    /\ profile.dailyMissionClaimed # {}
    /\ profile.rewardedLifetimeClaims > 0
    /\ profile.credits < QuotedCost("armor").credits
    /\ profile.crystals < getWeapon("lance").unlockCrystals

\* A round starts: startMatch has run.
RoundStarts == phase # "playing" /\ phase' = "playing"

\* C40: a round is always played with an unlocked weapon.  The weapon of the
\* round is in the unlockedWeapons of the profile in every state; the round
\* that startMatch builds has the weapon that startMatch picks, which is an
\* unlocked one for every weapon the UI could hold as selected; the fresh
\* round after a round end keeps the weapon of the round that ended; and
\* selectWeaponLoadout of a locked weapon changes neither the profile nor the
\* selection.
C40_UnlockedWeaponInPlay ==
    /\ [](/\ round.weaponId \in profile.unlockedWeapons
          /\ \A w \in WeaponIds : safeWeapon(profile, w) \in profile.unlockedWeapons)
    /\ [][/\ RoundStarts
                => /\ round'.weaponId = safeWeapon(profile, selectedWeapon)
                   /\ round'.weaponId = profile'.selectedWeapon
                   /\ round'.weaponId \in profile'.unlockedWeapons
                   /\ profile'.unlockedWeapons = profile.unlockedWeapons
          /\ RoundEnds
                => /\ FreshRound(round')
                   /\ round'.weaponId = round.weaponId
                   /\ round'.weaponId \in profile'.unlockedWeapons
          /\ \A w \in WeaponIds :
                (SelectWeapon(w) /\ w \notin profile.unlockedWeapons)
                    => profile' = profile /\ selectedWeapon' = selectedWeapon]_vars

\* A round played with the scatter weapon has ended, and the fresh round has
\* that weapon, while the lance weapon is still locked.
C40_Witness ==
    /\ phase = "game_over"
    /\ FreshRound(round)
    /\ round.weaponId = "scatter"
    /\ selectedWeapon = "scatter"
    /\ "lance" \notin profile.unlockedWeapons
=============================================================================
